---- MODULE Spec2Model ----
(***************************************************************************)
(* NetWeaver telemetry agent: the UDP collector goroutines, the bounded     *)
(* flow buffer, the batching database writer and the Start/Stop lifecycle  *)
(* of TelemetryAgent, with the database client it writes through.          *)
(***************************************************************************)
EXTENDS Integers, Sequences, FiniteSets, TLC

(* ------------------------------ bounds -------------------------------- *)
\* collectors.netflow.workers and collectors.sflow.workers of the config
NetFlowWorkers == 2
SFlowWorkers == 1
\* performance.buffer_size: capacity of flowBuffer and size trigger of a flush
BufferSize == 2
\* records the decoders emit over a run, and records of one datagram
MaxRecords == 3
MaxFlowsPerDatagram == 2
\* datagrams read from the sockets over a run
MaxDatagrams == 2

Protos == {"netflow", "sflow"}

WorkerCount(p) == IF p = "netflow" THEN NetFlowWorkers ELSE SFlowWorkers

\* one collector goroutine per configured worker; the goroutines of a collector
\* run the same code on the same data, and are numbered in the order in which
\* they reach net.ListenUDP
Workers == UNION {{<<p, i>> : i \in 1..WorkerCount(p)} : p \in Protos}

Proto(w) == w[1]

Records == 1..MaxRecords

NoOwner == <<"none", 0>>

\* a socket of another process of the host
OtherProcess == <<"other", 0>>

VARIABLES
    agent,            \* lifecycle: created, running, draining, stopped
    ctxDone,          \* a.ctx has been cancelled (also the database client's ctx)
    dbTable,          \* rows of flow_records, in insertion order
    flowBuffer,       \* a.flowBuffer, the buffered channel
    socket,           \* per listen address: the worker whose socket is bound to it
    wpc,              \* per collector goroutine: idle, start, read, enqueue, done
    pending,          \* per collector: records of the current datagram not yet offered
    writerPc,         \* databaseWriter: idle, select, copy, done
    batch,            \* the writer's batch slice
    trigger,          \* what started the flush in progress: size, tick
    tick,             \* ticker.C holds a tick
    packetsReceived, flowsProcessed, dbInsertsSuccess, dbInsertsFailed, parseErrors,
    emitted,          \* records returned by the decoders so far
    dropped,          \* "Flow buffer full, dropping flow" events so far
    dequeued,         \* records the writer received from flowBuffer so far
    insertLog,        \* completed InsertFlowRecords calls: records, result, trigger
    statsPc,          \* statsReporter: off (monitoring disabled), idle, run, done
    data,             \* the datagram handed to a parser's Parse
    wire,             \* the fields the datagram was built from
    parserStats,      \* the parser's ParserStats
    parsed,           \* what Parse returned: flows and error, or NotParsed
    graph,            \* the routing Graph: Nodes, and the Cost of each edge
    routing,          \* the call made on the graph: arguments, locals, return
    calls,            \* per goroutine calling Parse on a shared parser: its position
    rows              \* the FlowRecordDB values a collector has built and sent

vars == <<agent, ctxDone, dbTable, flowBuffer, socket, wpc, pending,
          writerPc, batch, trigger, tick, packetsReceived, flowsProcessed,
          dbInsertsSuccess, dbInsertsFailed, parseErrors, emitted, dropped,
          dequeued, insertLog, statsPc, data, wire, parserStats, parsed, graph,
          routing, calls, rows>>

\* the state of a parser and of the Parse call made on it
decoderVars == <<data, wire, parserStats, parsed>>

\* the state of the routing optimizer
routingVars == <<graph, routing>>

\* the Parse calls in progress on a shared parser, and the rows converted
callVars == <<calls, rows>>

\* what the collectors, the writer and Stop never touch
outside == <<statsPc, decoderVars, routingVars, callVars>>

counters == <<packetsReceived, flowsProcessed, dbInsertsSuccess, dbInsertsFailed,
              parseErrors>>

writerVars == <<writerPc, batch, trigger, dbTable, insertLog, dequeued,
                dbInsertsSuccess, dbInsertsFailed>>

workerVars == <<socket, wpc, pending, packetsReceived, flowsProcessed, parseErrors,
                emitted, dropped>>

(* --------------------------- construction ----------------------------- *)
\* a Parse call that has not returned yet
NotParsed == [flows |-> <<>>, err |-> "pending"]

\* NewParser: a parser with zero statistics
NewParser == [PacketsParsed |-> 0, RecordsParsed |-> 0, ParseErrors |-> 0]

\* no datagram is being decoded
NoDatagram ==
    /\ data = <<>>
    /\ wire = <<>>
    /\ parserStats = NewParser
    /\ parsed = NotParsed

\* no graph has been built
NoGraph ==
    /\ graph = [Nodes |-> {}, Edges |-> <<>>]
    /\ routing = [pc |-> "none"]

\* no goroutine is in a Parse call and no row has been built
NoCalls ==
    /\ calls = <<>>
    /\ rows = <<>>

\* NewTelemetryAgent: context created, database pinged, empty channel, zero counters
NewTelemetryAgent ==
    /\ agent = "created"
    /\ ctxDone = FALSE
    /\ dbTable = <<>>
    /\ flowBuffer = <<>>
    /\ wpc = [w \in Workers |-> "idle"]
    /\ pending = [w \in Workers |-> <<>>]
    /\ writerPc = "idle"
    /\ batch = <<>>
    /\ trigger = "none"
    /\ tick = FALSE
    /\ packetsReceived = 0
    /\ flowsProcessed = 0
    /\ dbInsertsSuccess = 0
    /\ dbInsertsFailed = 0
    /\ parseErrors = 0
    /\ emitted = 0
    /\ dropped = 0
    /\ dequeued = 0
    /\ insertLog = <<>>

\* the agent with monitoring.enabled false and its listen addresses free
Init ==
    /\ NewTelemetryAgent
    /\ socket = [p \in Protos |-> NoOwner]
    /\ statsPc = "off"
    /\ NoDatagram
    /\ NoGraph
    /\ NoCalls

\* the agent with monitoring.enabled true
InitMonitored ==
    /\ NewTelemetryAgent
    /\ socket = [p \in Protos |-> NoOwner]
    /\ statsPc = "idle"
    /\ NoDatagram
    /\ NoGraph
    /\ NoCalls

\* the same agent on a host where another process may hold a listen address
InitAnyAddress ==
    /\ NewTelemetryAgent
    /\ socket \in [Protos -> {NoOwner, OtherProcess}]
    /\ statsPc = "off"
    /\ NoDatagram
    /\ NoGraph
    /\ NoCalls

\* Start, with both collectors enabled: go databaseWriter(), then one
\* goroutine per configured worker, then go statsReporter() when monitoring is
\* enabled; it logs "started successfully" and returns nil
Start ==
    /\ agent = "created"
    /\ agent' = "running"
    /\ writerPc' = "select"
    /\ wpc' = [w \in Workers |-> "start"]
    /\ statsPc' = IF statsPc = "idle" THEN "run" ELSE statsPc
    /\ UNCHANGED <<ctxDone, dbTable, flowBuffer, socket, pending, batch, trigger,
                   tick, counters, emitted, dropped, dequeued, insertLog, decoderVars,
                   routingVars, callVars>>

(* ----------------------------- collectors ----------------------------- *)
\* net.ListenUDP on the configured address: every collector goroutine binds a
\* socket of its own, and the bind succeeds only while no other socket holds
\* the address
ListenUDP(p) == socket[p] = NoOwner

\* the collector returns: defer conn.Close() releases the address it holds
CloseConn(w) == [p \in Protos |-> IF socket[p] = w THEN NoOwner ELSE socket[p]]

\* a receive loop that never looks at the context
LoopTopNoCheck == "read"

\* top of the receive loop, reached without delay after the bind and after each
\* iteration: select { case <-a.ctx.Done(): return; default: read with deadline }
LoopTop == IF ctxDone THEN "done" ELSE "read"

\* the sockets after collector w has gone to pc: a return closes its socket
SocketAfter(w, pc) == IF pc = "done" THEN CloseConn(w) ELSE socket

\* netflowCollector / sflowCollector up to the receive loop: a failed bind is
\* logged and the goroutine returns
Bind(w) ==
    /\ wpc[w] = "start"
    /\ \A v \in Workers : (Proto(v) = Proto(w) /\ v[2] < w[2]) => wpc[v] # "start"
    /\ IF ListenUDP(Proto(w))
       THEN /\ wpc' = [wpc EXCEPT ![w] = LoopTop]
            /\ socket' = IF LoopTop = "done" THEN socket
                         ELSE [socket EXCEPT ![Proto(w)] = w]
       ELSE /\ wpc' = [wpc EXCEPT ![w] = "done"]
            /\ UNCHANGED socket
    /\ UNCHANGED <<agent, ctxDone, outside, flowBuffer, pending, tick, writerVars,
                   packetsReceived, flowsProcessed, parseErrors, emitted, dropped>>

\* ReadFromUDP returns a timeout after the one second deadline: continue
ReadTimeout(w) ==
    /\ wpc[w] = "read"
    /\ wpc' = [wpc EXCEPT ![w] = LoopTop]
    /\ socket' = SocketAfter(w, LoopTop)
    /\ UNCHANGED <<agent, ctxDone, outside, flowBuffer, pending, tick, writerVars,
                   packetsReceived, flowsProcessed, parseErrors, emitted, dropped>>

\* a collector that returns when a read fails
ReadErrorReturns(w) ==
    /\ wpc[w] = "read"
    /\ wpc' = [wpc EXCEPT ![w] = "done"]
    /\ socket' = SocketAfter(w, "done")
    /\ UNCHANGED <<agent, ctxDone, outside, flowBuffer, pending, tick, writerVars,
                   packetsReceived, flowsProcessed, parseErrors, emitted, dropped>>

\* ReadFromUDP returns another error: logged, continue
ReadError(w) ==
    /\ wpc[w] = "read"
    /\ wpc' = [wpc EXCEPT ![w] = LoopTop]
    /\ socket' = SocketAfter(w, LoopTop)
    /\ UNCHANGED <<agent, ctxDone, outside, flowBuffer, pending, tick, writerVars,
                   packetsReceived, flowsProcessed, parseErrors, emitted, dropped>>

\* a collector that returns when the decoder rejects a datagram
ReadBadDatagramReturns(w) ==
    /\ wpc[w] = "read"
    /\ packetsReceived < MaxDatagrams
    /\ packetsReceived' = packetsReceived + 1
    /\ parseErrors' = parseErrors + 1
    /\ wpc' = [wpc EXCEPT ![w] = "done"]
    /\ socket' = SocketAfter(w, "done")
    /\ UNCHANGED <<agent, ctxDone, outside, flowBuffer, pending, tick, writerVars,
                   flowsProcessed, emitted, dropped>>

\* a datagram is read and the decoder rejects it: counted, continue
ReadBadDatagram(w) ==
    /\ wpc[w] = "read"
    /\ packetsReceived < MaxDatagrams
    /\ packetsReceived' = packetsReceived + 1
    /\ parseErrors' = parseErrors + 1
    /\ wpc' = [wpc EXCEPT ![w] = LoopTop]
    /\ socket' = SocketAfter(w, LoopTop)
    /\ UNCHANGED <<agent, ctxDone, outside, flowBuffer, pending, tick, writerVars,
                   flowsProcessed, emitted, dropped>>

\* a datagram is read and the decoder returns k records, numbered as emitted
ReadDatagram(w) ==
    /\ wpc[w] = "read"
    /\ packetsReceived < MaxDatagrams
    /\ \E k \in 0..MaxFlowsPerDatagram :
        /\ emitted + k <= MaxRecords
        /\ packetsReceived' = packetsReceived + 1
        /\ emitted' = emitted + k
        /\ pending' = [pending EXCEPT ![w] = [i \in 1..k |-> emitted + i]]
        /\ LET pc == IF k = 0 THEN LoopTop ELSE "enqueue"
           IN  /\ wpc' = [wpc EXCEPT ![w] = pc]
               /\ socket' = SocketAfter(w, pc)
    /\ UNCHANGED <<agent, ctxDone, outside, flowBuffer, tick, writerVars, flowsProcessed,
                   parseErrors, dropped>>

\* the select without its default case: a send that waits for room
SelectEnqueueBlocking(len, done) ==
    (IF len < BufferSize THEN {"sent"} ELSE {})
        \cup (IF done THEN {"cancelled"} ELSE {})

\* select { case a.flowBuffer <- dbRecord; case <-a.ctx.Done(); default }: the
\* cases that are ready, among which select chooses; default runs when none is
SelectEnqueue(len, done) ==
    LET ready == (IF len < BufferSize THEN {"sent"} ELSE {})
                 \cup (IF done THEN {"cancelled"} ELSE {})
    IN  IF ready = {} THEN {"dropped"} ELSE ready

\* one iteration of "for _, flow := range flows"
Enqueue(w) ==
    /\ wpc[w] = "enqueue"
    /\ \E o \in SelectEnqueue(Len(flowBuffer), ctxDone) :
        /\ flowBuffer' = IF o = "sent" THEN Append(flowBuffer, Head(pending[w]))
                         ELSE flowBuffer
        /\ flowsProcessed' = IF o = "sent" THEN flowsProcessed + 1 ELSE flowsProcessed
        /\ dropped' = IF o = "dropped" THEN dropped + 1 ELSE dropped
        /\ pending' = [pending EXCEPT ![w] =
                          IF o = "cancelled" THEN <<>> ELSE Tail(pending[w])]
        /\ LET pc == IF o = "cancelled" THEN "done"
                     ELSE IF Len(pending[w]) = 1 THEN LoopTop ELSE "enqueue"
           IN  /\ wpc' = [wpc EXCEPT ![w] = pc]
               /\ socket' = SocketAfter(w, pc)
    /\ UNCHANGED <<agent, ctxDone, outside, tick, writerVars, packetsReceived, parseErrors,
                   emitted>>

(* --------------------------- database client -------------------------- *)
\* InsertFlowRecords(records): pool.Acquire(c.ctx) then CopyFrom(c.ctx, ...),
\* where c.ctx is the agent's own context. The results the call can return:
\* an acquire or copy on a context that was cancelled before the call fails,
\* a copy whose context is cancelled while it runs may or may not have been
\* committed, an unhealthy database fails the copy.
InsertFlowRecords(cancelledBefore, cancelledNow, healthy) ==
    IF cancelledBefore \/ ~healthy THEN {FALSE}
    ELSE IF cancelledNow THEN {TRUE, FALSE}
    ELSE {TRUE}

\* the COPY appends the rows of a successful call to flow_records
CopyFrom(table, records, ok) == IF ok THEN table \o records ELSE table

(* ------------------------------- writer ------------------------------- *)
\* a flush that keeps the records of a failed insert for the next flush
ClearBatchOnSuccess(b, ok) == IF ok THEN <<>> ELSE b

\* flush: "batch = batch[:0]" after the insert, whatever its result
ClearBatch(b, ok) == <<>>

\* the error test of flush inverted
CountInsertInverted(ok) ==
    /\ dbInsertsSuccess' = IF ok THEN dbInsertsSuccess ELSE dbInsertsSuccess + 1
    /\ dbInsertsFailed' = IF ok THEN dbInsertsFailed + 1 ELSE dbInsertsFailed

\* flush: dbInsertsFailed.Add(1) on error, dbInsertsSuccess.Add(1) otherwise
CountInsert(ok) ==
    /\ dbInsertsSuccess' = IF ok THEN dbInsertsSuccess + 1 ELSE dbInsertsSuccess
    /\ dbInsertsFailed' = IF ok THEN dbInsertsFailed ELSE dbInsertsFailed + 1

\* a writer that gives up after a failed insert
AfterFlushStopOnError(why, ok) ==
    IF why = "shutdown" \/ ~ok THEN "done" ELSE "select"

\* where the writer goes once flush has returned: back to the select, or
\* out of the function when the flush was the one of the ctx.Done() case
AfterFlush(why, ok) == IF why = "shutdown" THEN "done" ELSE "select"

\* the insert of flush returns ok for batch b, flushed because of why, the
\* database having been healthy or not during the call
FlushReturns(b, why, healthy, ok) ==
    /\ CountInsert(ok)
    /\ dbTable' = CopyFrom(dbTable, b, ok)
    /\ insertLog' = Append(insertLog, [recs |-> b, ok |-> ok, why |-> why,
                                       healthy |-> healthy])
    /\ batch' = ClearBatch(b, ok)
    /\ writerPc' = AfterFlush(why, ok)
    /\ trigger' = "none"

\* a flush with no test of len(batch): InsertFlowRecords is called with the
\* empty batch too, returns nil for it, and the call is counted
FlushEmptyToo(b, why) ==
    IF Len(b) = 0 \/ ctxDone
    THEN \E healthy \in BOOLEAN :
             \E ok \in IF Len(b) = 0 THEN {TRUE}
                        ELSE InsertFlowRecords(TRUE, TRUE, healthy) :
                 FlushReturns(b, why, healthy, ok)
    ELSE /\ batch' = b
         /\ writerPc' = "copy"
         /\ trigger' = why
         /\ UNCHANGED <<dbTable, insertLog, dbInsertsSuccess, dbInsertsFailed>>

\* flush() called with batch b because of why: nothing for an empty batch; an
\* insert on a cancelled context returns at once, any other one is in progress
\* until CopyEnd
Flush(b, why) ==
    IF Len(b) = 0
    THEN /\ batch' = b
         /\ writerPc' = AfterFlush(why, TRUE)
         /\ UNCHANGED <<trigger, dbTable, insertLog, dbInsertsSuccess, dbInsertsFailed>>
    ELSE IF ctxDone
    THEN \E healthy \in BOOLEAN :
             \E ok \in InsertFlowRecords(TRUE, TRUE, healthy) :
                 FlushReturns(b, why, healthy, ok)
    ELSE /\ batch' = b
         /\ writerPc' = "copy"
         /\ trigger' = why
         /\ UNCHANGED <<dbTable, insertLog, dbInsertsSuccess, dbInsertsFailed>>

\* a writer that returns on ctx.Done() without the flush
WriterShutdownNoFlush ==
    /\ writerPc = "select"
    /\ ctxDone
    /\ writerPc' = "done"
    /\ UNCHANGED <<agent, ctxDone, outside, flowBuffer, tick, dequeued, workerVars, batch,
                   trigger, dbTable, insertLog, dbInsertsSuccess, dbInsertsFailed>>

\* case <-a.ctx.Done(): flush(); return
WriterShutdown ==
    /\ writerPc = "select"
    /\ ctxDone
    /\ Flush(batch, "shutdown")
    /\ UNCHANGED <<agent, ctxDone, outside, flowBuffer, tick, dequeued, workerVars>>

\* a writer that puts the record it received before the others of the batch
PrependFlow(b, flow) == <<flow>> \o b

\* batch = append(batch, flow)
AppendFlow(b, flow) == Append(b, flow)

\* a size test that lets the batch grow one record past BufferSize
BatchFullOffByOne(b) == Len(b) > BufferSize

\* len(batch) >= a.config.Performance.BufferSize
BatchFull(b) == Len(b) >= BufferSize

\* case flow := <-a.flowBuffer: append, flush when the batch has BufferSize records
WriterDequeue ==
    /\ writerPc = "select"
    /\ Len(flowBuffer) > 0
    /\ flowBuffer' = Tail(flowBuffer)
    /\ dequeued' = dequeued + 1
    /\ LET b == AppendFlow(batch, Head(flowBuffer))
       IN  IF BatchFull(b)
           THEN Flush(b, "size")
           ELSE /\ batch' = b
                /\ UNCHANGED <<writerPc, trigger, dbTable, insertLog, dbInsertsSuccess,
                               dbInsertsFailed>>
    /\ UNCHANGED <<agent, ctxDone, outside, tick, workerVars>>

\* a writer whose tick case does not flush
WriterTickIgnored ==
    /\ writerPc = "select"
    /\ tick
    /\ tick' = FALSE
    /\ UNCHANGED <<agent, ctxDone, outside, flowBuffer, dequeued, workerVars, writerPc, batch,
                   trigger, dbTable, insertLog, dbInsertsSuccess, dbInsertsFailed>>

\* case <-ticker.C: flush()
WriterTick ==
    /\ writerPc = "select"
    /\ tick
    /\ tick' = FALSE
    /\ Flush(batch, "tick")
    /\ UNCHANGED <<agent, ctxDone, outside, flowBuffer, dequeued, workerVars>>

\* the insert in progress returns, the database having been in one of the
\* health states H while it ran
CopyReturns(H) ==
    /\ writerPc = "copy"
    /\ \E healthy \in H :
           \E ok \in InsertFlowRecords(FALSE, ctxDone, healthy) :
               FlushReturns(batch, trigger, healthy, ok)
    /\ UNCHANGED <<agent, ctxDone, outside, flowBuffer, tick, dequeued, workerVars>>

CopyEnd == CopyReturns(BOOLEAN)

\* the same with a database that stays healthy
CopyEndHealthy == CopyReturns({TRUE})

(* ----------------------------- environment ---------------------------- *)
\* the ticker's period elapses; ticker.C keeps one tick, further ones are lost
Tick ==
    /\ writerPc \in {"select", "copy"}
    /\ ~tick
    /\ tick' = TRUE
    /\ UNCHANGED <<agent, ctxDone, outside, flowBuffer, writerVars, workerVars>>

(* --------------------------- stats reporter --------------------------- *)
\* statsReporter, case <-ticker.C: the counters are read and logged
StatsReport ==
    /\ statsPc = "run"
    /\ UNCHANGED vars

\* statsReporter, case <-a.ctx.Done(): return
StatsReturn ==
    /\ statsPc = "run"
    /\ ctxDone
    /\ statsPc' = "done"
    /\ UNCHANGED <<agent, ctxDone, flowBuffer, tick, writerVars, workerVars, decoderVars,
                   routingVars, callVars>>

(* -------------------------------- Stop -------------------------------- *)
\* Stop: a.cancel()
StopCancel ==
    /\ agent = "running"
    /\ agent' = "draining"
    /\ ctxDone' = TRUE
    /\ UNCHANGED <<flowBuffer, tick, writerVars, workerVars, outside>>

\* a Stop that closes the database handle without waiting for the goroutines
StopCloseNoWait ==
    /\ agent = "draining"
    /\ agent' = "stopped"
    /\ UNCHANGED <<ctxDone, flowBuffer, tick, writerVars, workerVars, outside>>

\* Stop: a.wg.Wait() returns, a.dbClient.Close()
StopClose ==
    /\ agent = "draining"
    /\ writerPc = "done"
    /\ \A w \in Workers : wpc[w] = "done"
    /\ statsPc \in {"off", "done"}
    /\ agent' = "stopped"
    /\ UNCHANGED <<ctxDone, flowBuffer, tick, writerVars, workerVars, outside>>

(* ---------------------------- specification --------------------------- *)
Collector(w) ==
    \/ Bind(w)
    \/ ReadTimeout(w)
    \/ ReadError(w)
    \/ ReadBadDatagram(w)
    \/ ReadDatagram(w)
    \/ Enqueue(w)

Writer ==
    \/ WriterShutdown
    \/ WriterDequeue
    \/ WriterTick
    \/ CopyEnd

Next ==
    \/ Start
    \/ \E w \in Workers : Collector(w)
    \/ Writer
    \/ Tick
    \/ StopCancel
    \/ StopClose

Spec == Init /\ [][Next]_vars

\* The monitored agent from start to stop. Every goroutine that can take a step
\* takes one: a read returns after its one second deadline at the latest, an
\* insert returns, a select with a ready case runs one of them, and the
\* ctx.Done() case of the writer and of the stats reporter, ready from the
\* cancel onwards, is chosen in the end; Stop returns from wg.Wait() once every
\* goroutine has returned.
StopNext ==
    \/ Next
    \/ StatsReport
    \/ StatsReturn

StopSpec ==
    /\ InitMonitored
    /\ [][StopNext]_vars
    /\ \A w \in Workers : WF_vars(Collector(w))
    /\ WF_vars(WriterShutdown)
    /\ WF_vars(CopyEnd)
    /\ WF_vars(StatsReturn)
    /\ WF_vars(StopClose)

\* the agent started on a host whose listen addresses may be taken
BindSpec == InitAnyAddress /\ [][Next]_vars

\* The agent while no stop signal is delivered and the database stays healthy.
\* A copy in progress returns and the ticker keeps firing every FlushInterval
\* seconds (weak fairness); the writer's select chooses at random among its
\* ready cases, so a case that is ready again and again is eventually chosen
\* (strong fairness of the dequeue and of the tick case).
LiveNext ==
    \/ Start
    \/ \E w \in Workers : Collector(w)
    \/ WriterDequeue
    \/ WriterTick
    \/ CopyEndHealthy
    \/ Tick

LiveSpec ==
    /\ Init
    /\ [][LiveNext]_vars
    /\ SF_vars(WriterDequeue)
    /\ SF_vars(WriterTick)
    /\ WF_vars(CopyEndHealthy)
    /\ WF_vars(Tick)

(* ------------------------ fixed-width integers ------------------------ *)
\* The unsigned integers of the wire and of Go wider than 16 bits are kept as
\* big-endian byte sequences, so that every width and every wrap-around is the
\* one of the code.
Zeros(n) == [i \in 1..n |-> 0]

Front(x) == SubSeq(x, 1, Len(x) - 1)

\* conversion to an unsigned integer of n bytes: the low n bytes, zero-extended
Resize(x, n) ==
    IF Len(x) >= n THEN SubSeq(x, Len(x) - n + 1, Len(x)) ELSE Zeros(n - Len(x)) \o x

\* the value of a sequence of at most three bytes
RECURSIVE Value(_)
Value(x) == IF x = <<>> THEN 0 ELSE Value(Front(x)) * 256 + x[Len(x)]

\* the n-byte integer with value k
RECURSIVE FromInt(_, _)
FromInt(k, n) == IF n = 0 THEN <<>> ELSE FromInt(k \div 256, n - 1) \o <<k % 256>>

\* x + y + c for x and y of the same length, with the carry as leading byte
RECURSIVE AddCarry(_, _, _)
AddCarry(x, y, c) ==
    IF x = <<>> THEN <<c>>
    ELSE LET sum == x[Len(x)] + y[Len(y)] + c
         IN  AddCarry(Front(x), Front(y), sum \div 256) \o <<sum % 256>>

\* x + y in n bytes
Add(x, y, n) == Resize(AddCarry(Resize(x, n), Resize(y, n), 0), n)

\* x * k + c for a byte k, with the carry as leading byte
RECURSIVE MulByte(_, _, _)
MulByte(x, k, c) ==
    IF x = <<>> THEN <<c>>
    ELSE LET prod == x[Len(x)] * k + c
         IN  MulByte(Front(x), k, prod \div 256) \o <<prod % 256>>

\* x * y in n bytes
RECURSIVE Mul(_, _, _)
Mul(x, y, n) ==
    IF y = <<>> THEN Zeros(n)
    ELSE Add(Mul(x, Front(y), n) \o <<0>>, MulByte(x, y[Len(y)], 0), n)

\* x - y - b for x and y of the same length, modulo 256^Len(x)
RECURSIVE SubBorrow(_, _, _)
SubBorrow(x, y, b) ==
    IF x = <<>> THEN <<>>
    ELSE LET diff == x[Len(x)] - y[Len(y)] - b
         IN  SubBorrow(Front(x), Front(y), IF diff < 0 THEN 1 ELSE 0)
                 \o <<(diff + 256) % 256>>

\* x >= y for x and y of the same length
RECURSIVE Geq(_, _)
Geq(x, y) ==
    IF x = <<>> THEN TRUE
    ELSE IF Head(x) # Head(y) THEN Head(x) > Head(y)
    ELSE Geq(Tail(x), Tail(y))

\* data[lo:hi] of Go, for 0 <= lo <= hi <= len(data)
Slice(d, lo, hi) == SubSeq(d, lo + 1, hi)

\* data[i] of Go
At(d, i) == d[i + 1]

\* binary.BigEndian.Uint16(data[off:off+2])
Uint16(d, off) == Value(Slice(d, off, off + 2))

\* binary.BigEndian.Uint32(data[off:off+4])
Uint32(d, off) == Slice(d, off, off + 4)

(* --------------------------- NetFlow parser --------------------------- *)
NetFlowV5 == 5
NetFlowV9 == 9
NetFlowIPFIX == 10

headerSize == 24
recordSize == 48

\* an error return whose message carries the parser's error count
RejectNumbered(stats, err) ==
    [flows |-> <<>>, err |-> <<err, stats.ParseErrors>>,
     stats |-> [stats EXCEPT !.ParseErrors = @ + 1]]

\* a failed call: p.ParseErrors++; return nil, fmt.Errorf(...)
Reject(stats, err) ==
    [flows |-> <<>>, err |-> err, stats |-> [stats EXCEPT !.ParseErrors = @ + 1]]

\* parseV5: samplingRate := uint32(header.SamplingInterval & 0x3FFF), 0 made 1
SamplingRate(SamplingInterval) ==
    LET samplingRate == SamplingInterval % 16384
    IN  FromInt(IF samplingRate = 0 THEN 1 ELSE samplingRate, 4)

\* the product taken in 32 bits
ScaleUint32(counter, samplingRate) == Resize(Mul(counter, samplingRate, 4), 8)

\* uint64(counter) * uint64(samplingRate)
Scale(counter, samplingRate) == Mul(Resize(counter, 8), Resize(samplingRate, 8), 8)

\* a duration taken as last - first in 32 bits whatever the order
FlowDurationWrapping(first, last) == SubBorrow(last, first, 0)

\* parseV5: flowDuration = last - first if last >= first, else 0
FlowDuration(first, last) ==
    IF Geq(last, first) THEN SubBorrow(last, first, 0) ELSE Zeros(4)

\* parseV5: the FlowRecord built from data[offset : offset+recordSize]
V5Record(d, offset, exporterIP, samplingRate) ==
    LET recordData == Slice(d, offset, offset + recordSize)
    IN  [Timestamp |-> <<Uint32(d, 8), Uint32(d, 12)>>,
         ExporterIP |-> exporterIP,
         SourceIP |-> Slice(recordData, 0, 4),
         DestinationIP |-> Slice(recordData, 4, 8),
         SourcePort |-> Uint16(recordData, 32),
         DestPort |-> Uint16(recordData, 34),
         Protocol |-> At(recordData, 38),
         Bytes |-> Scale(Uint32(recordData, 20), samplingRate),
         Packets |-> Scale(Uint32(recordData, 16), samplingRate),
         TCPFlags |-> At(recordData, 37),
         ToS |-> At(recordData, 39),
         InputInterface |-> Resize(Slice(recordData, 12, 14), 4),
         OutputInterface |-> Resize(Slice(recordData, 14, 16), 4),
         NextHopIP |-> Slice(recordData, 8, 12),
         SourceAS |-> Resize(Slice(recordData, 40, 42), 4),
         DestAS |-> Resize(Slice(recordData, 42, 44), 4),
         FlowDuration |-> FlowDuration(Uint32(recordData, 24), Uint32(recordData, 28)),
         SamplingRate |-> samplingRate]

\* a record loop that does not advance its offset
RECURSIVE V5RecordsSameOffset(_, _, _, _, _, _)
V5RecordsSameOffset(d, offset, i, Count, exporterIP, samplingRate) ==
    IF i >= Count \/ offset + recordSize > Len(d) THEN <<>>
    ELSE <<V5Record(d, offset, exporterIP, samplingRate)>>
             \o V5RecordsSameOffset(d, offset, i + 1, Count, exporterIP, samplingRate)

\* parseV5: for i := 0; i < int(header.Count); i++, from iteration i on
RECURSIVE V5Records(_, _, _, _, _, _)
V5Records(d, offset, i, Count, exporterIP, samplingRate) ==
    IF i >= Count \/ offset + recordSize > Len(d) THEN <<>>
    ELSE <<V5Record(d, offset, exporterIP, samplingRate)>>
             \o V5Records(d, offset + recordSize, i + 1, Count, exporterIP, samplingRate)

\* a size test that accepts a payload one record short
SizeMismatchOffByOne(len, Count) == len < headerSize + ((Count - 1) * recordSize)

\* parseV5: len(data) < expectedSize
SizeMismatch(len, Count) == len < headerSize + (Count * recordSize)

parseV5(d, exporterIP, stats) ==
    IF Len(d) < headerSize THEN Reject(stats, "v5 packet too short for header")
    ELSE LET Count == Uint16(d, 2)
             samplingRate == SamplingRate(Uint16(d, 22))
         IN  IF SizeMismatch(Len(d), Count) THEN Reject(stats, "v5 packet size mismatch")
             ELSE LET flows == V5Records(d, headerSize, 0, Count, exporterIP, samplingRate)
                  IN  [flows |-> flows, err |-> "nil",
                       stats |-> [stats EXCEPT !.PacketsParsed = @ + 1,
                                               !.RecordsParsed = @ + Len(flows)]]

\* a version switch that takes every version for version 5
VersionSwitchAll(version, d, exporterIP, stats) == parseV5(d, exporterIP, stats)

\* Parse: switch version
VersionSwitch(version, d, exporterIP, stats) ==
    CASE version = NetFlowV5 -> parseV5(d, exporterIP, stats)
      [] version = NetFlowV9 -> Reject(stats, "v9 not implemented")
      [] version = NetFlowIPFIX -> Reject(stats, "IPFIX not implemented")
      [] OTHER -> Reject(stats, "unsupported version")

\* netflow.Parser.Parse(data, exporterIP) on a parser with statistics stats
NetflowParse(d, exporterIP, stats) ==
    IF Len(d) < 2 THEN Reject(stats, "packet too short")
    ELSE VersionSwitch(Uint16(d, 0), d, exporterIP, stats)

(* ------------------------- NetFlow datagrams -------------------------- *)
\* records of a NetFlow v5 datagram built for the parser
MaxCount == 2

\* the record of TestNetFlowV5Parser: 192.168.1.10:443 to 10.0.0.50:54321,
\* TCP, 100 packets, 150000 bytes
TestRecord ==
    [SrcAddr |-> <<192, 168, 1, 10>>, DstAddr |-> <<10, 0, 0, 50>>,
     NextHop |-> <<0, 0, 0, 0>>, Input |-> 0, Output |-> 0,
     DPkts |-> <<0, 0, 0, 100>>, DOctets |-> <<0, 2, 73, 240>>,
     First |-> <<0, 0, 0, 0>>, Last |-> <<0, 0, 0, 0>>,
     SrcPort |-> 443, DstPort |-> 54321, TCPFlags |-> 0, Prot |-> 6, Tos |-> 0,
     SrcAS |-> 0, DstAS |-> 0, SrcMask |-> 0, DstMask |-> 0]

\* a record with the largest counters, and a Last uptime before its First
LargeRecord ==
    [SrcAddr |-> <<10, 1, 2, 3>>, DstAddr |-> <<255, 255, 255, 255>>,
     NextHop |-> <<10, 1, 2, 254>>, Input |-> 65535, Output |-> 258,
     DPkts |-> <<255, 255, 255, 255>>, DOctets |-> <<255, 255, 255, 255>>,
     First |-> <<0, 0, 1, 0>>, Last |-> <<0, 0, 0, 255>>,
     SrcPort |-> 65535, DstPort |-> 53, TCPFlags |-> 27, Prot |-> 17, Tos |-> 184,
     SrcAS |-> 65001, DstAS |-> 64512, SrcMask |-> 24, DstMask |-> 32]

\* a record of an idle flow that wrapped its uptime clock
SmallRecord ==
    [SrcAddr |-> <<172, 16, 0, 1>>, DstAddr |-> <<172, 16, 0, 2>>,
     NextHop |-> <<172, 16, 0, 254>>, Input |-> 1, Output |-> 2,
     DPkts |-> <<0, 0, 0, 0>>, DOctets |-> <<0, 1, 0, 0>>,
     First |-> <<255, 255, 255, 0>>, Last |-> <<255, 255, 255, 255>>,
     SrcPort |-> 0, DstPort |-> 256, TCPFlags |-> 255, Prot |-> 1, Tos |-> 1,
     SrcAS |-> 1, DstAS |-> 256, SrcMask |-> 0, DstMask |-> 8]

V5RecordKinds == {TestRecord, LargeRecord, SmallRecord}

\* NetFlowV5Record: the 48 bytes of a record on the wire
V5RecordBytes(r) ==
    r.SrcAddr \o r.DstAddr \o r.NextHop \o FromInt(r.Input, 2) \o FromInt(r.Output, 2)
        \o r.DPkts \o r.DOctets \o r.First \o r.Last
        \o FromInt(r.SrcPort, 2) \o FromInt(r.DstPort, 2)
        \o <<0, r.TCPFlags, r.Prot, r.Tos>>
        \o FromInt(r.SrcAS, 2) \o FromInt(r.DstAS, 2) \o <<r.SrcMask, r.DstMask, 0, 0>>

\* NetFlowV5Header: the 24 bytes of a header on the wire, uptime 100 ms
V5HeaderBytes(w) ==
    FromInt(w.Version, 2) \o FromInt(w.Count, 2) \o <<0, 0, 0, 100>>
        \o w.UnixSecs \o w.UnixNsecs \o <<0, 0, 0, 7>> \o <<0, 0>>
        \o FromInt(w.SamplingInterval, 2)

RECURSIVE Flatten(_)
Flatten(seqs) == IF seqs = <<>> THEN <<>> ELSE Head(seqs) \o Flatten(Tail(seqs))

\* the first n bytes of x, zero bytes added when x is shorter
Datagram(x, n) == IF Len(x) >= n THEN SubSeq(x, 1, n) ELSE x \o Zeros(n - Len(x))

\* the datagram of n bytes that starts with the header and records of w
V5Packet(w) ==
    Datagram(V5HeaderBytes(w) \o Flatten([i \in 1..Len(w.Records) |->
                                             V5RecordBytes(w.Records[i])]), w.Size)

\* the versions, declared counts and sampling intervals of the datagrams
Versions == {NetFlowV5, NetFlowV9, NetFlowIPFIX, 255, 1285}

Counts == (0..MaxCount) \cup {65535}

SamplingIntervals == {0, 1, 16383, 16384, 32770, 65535}

Present(Count) == IF Count <= MaxCount THEN Count ELSE MaxCount

\* datagram lengths around the header and around the records present: one
\* byte short, exact, and with trailing bytes
Sizes(n) ==
    {0, 1, 2, 23, headerSize}
        \cup {headerSize + n * recordSize + k : k \in {-1, 0, 3, recordSize}}

\* the inputs of Parse: the fields of the datagram, its length, the exporter
NetflowDatagrams ==
    UNION {[Version : Versions, Count : {c}, SamplingInterval : SamplingIntervals,
            UnixSecs : {<<101, 0, 0, 0>>}, UnixNsecs : {<<0, 0, 0, 9>>},
            Records : [1..Present(c) -> V5RecordKinds], Size : Sizes(Present(c)),
            ExporterIP : {<<192, 168, 1, 1>>}] : c \in Counts}

\* a parser that has served no or some datagrams before
ParsersInUse ==
    {[PacketsParsed |-> p, RecordsParsed |-> 2 * p, ParseErrors |-> e]
        : p \in {0, 1}, e \in {0, 1}}

(* ---------------------------- sFlow parser ---------------------------- *)
SFlowVersion5 == 5
EnterpriseStandard == 0
SampleFlowSample == 1
SampleFlowSampleExpanded == 3
FlowRawPacketHeader == 1

\* int(x) of a uint32 x where it is compared with a length: the datagrams are
\* shorter than 2^24 bytes, and every larger x stands for 2^24
IntOf(x) == IF x[1] = 0 THEN Value(Tail(x)) ELSE 16777216

\* (format >> 12) & 0xFFFFF and format & 0xFFF of a sample or record format
EnterpriseOf(format) == format[1] * 4096 + format[2] * 16 + format[3] \div 16

FormatOf(format) == (format[3] % 16) * 256 + format[4]

\* a parseRawPacketHeader that takes all 16 bits after the 0x8100 as the
\* VLAN id, priority bits included
parseRawPacketHeaderWholeTag(d, agentIP, inputIface, outputIface, samplingRate) ==
    IF Len(d) < 16 THEN <<>>
    ELSE IF 16 + IntOf(Uint32(d, 12)) > Len(d) THEN <<>>
    ELSE LET frameLength == Uint32(d, 4)
             headerData == Slice(d, 16, 16 + IntOf(Uint32(d, 12)))
         IN  IF Len(headerData) < 14 THEN <<>>
             ELSE LET tagged == Uint16(headerData, 12) = 33024
                      ipOffset == IF tagged THEN 18 ELSE 14
                  IN  IF tagged /\ Len(headerData) < 18 THEN <<>>
                      ELSE LET etherType == Uint16(headerData, ipOffset - 2)
                               vlanID == IF tagged THEN Uint16(headerData, 14)
                                         ELSE 0
                           IN  IF etherType # 2048 THEN <<>>
                               ELSE IF Len(headerData) < ipOffset + 20 THEN <<>>
                               ELSE LET ipHeader == Slice(headerData, ipOffset,
                                                          Len(headerData))
                                        ihl == (At(ipHeader, 0) % 16) * 4
                                        ports == ihl + 4 <= Len(ipHeader)
                                    IN  IF Len(ipHeader) < ihl THEN <<>>
                                        ELSE <<[AgentIP |-> agentIP,
                                                SourceIP |-> Slice(ipHeader, 12, 16),
                                                DestinationIP |-> Slice(ipHeader, 16, 20),
                                                SourcePort |-> IF ports
                                                    THEN Uint16(ipHeader, ihl) ELSE 0,
                                                DestPort |-> IF ports
                                                    THEN Uint16(ipHeader, ihl + 2) ELSE 0,
                                                Protocol |-> At(ipHeader, 9),
                                                Bytes |-> Scale(frameLength, samplingRate),
                                                Packets |-> Resize(samplingRate, 8),
                                                InputInterface |-> inputIface,
                                                OutputInterface |-> outputIface,
                                                SamplingRate |-> samplingRate,
                                                PacketSize |-> frameLength,
                                                EtherType |-> etherType,
                                                VlanID |-> vlanID]>>

\* parseRawPacketHeader: nil, or the one record of an IPv4 frame
parseRawPacketHeader(d, agentIP, inputIface, outputIface, samplingRate) ==
    IF Len(d) < 16 THEN <<>>
    ELSE IF 16 + IntOf(Uint32(d, 12)) > Len(d) THEN <<>>
    ELSE LET frameLength == Uint32(d, 4)
             headerData == Slice(d, 16, 16 + IntOf(Uint32(d, 12)))
         IN  IF Len(headerData) < 14 THEN <<>>
             ELSE LET tagged == Uint16(headerData, 12) = 33024
                      ipOffset == IF tagged THEN 18 ELSE 14
                  IN  IF tagged /\ Len(headerData) < 18 THEN <<>>
                      ELSE LET etherType == Uint16(headerData, ipOffset - 2)
                               vlanID == IF tagged THEN Uint16(headerData, 14) % 4096
                                         ELSE 0
                           IN  IF etherType # 2048 THEN <<>>
                               ELSE IF Len(headerData) < ipOffset + 20 THEN <<>>
                               ELSE LET ipHeader == Slice(headerData, ipOffset,
                                                          Len(headerData))
                                        ihl == (At(ipHeader, 0) % 16) * 4
                                        ports == ihl + 4 <= Len(ipHeader)
                                    IN  IF Len(ipHeader) < ihl THEN <<>>
                                        ELSE <<[AgentIP |-> agentIP,
                                                SourceIP |-> Slice(ipHeader, 12, 16),
                                                DestinationIP |-> Slice(ipHeader, 16, 20),
                                                SourcePort |-> IF ports
                                                    THEN Uint16(ipHeader, ihl) ELSE 0,
                                                DestPort |-> IF ports
                                                    THEN Uint16(ipHeader, ihl + 2) ELSE 0,
                                                Protocol |-> At(ipHeader, 9),
                                                Bytes |-> Scale(frameLength, samplingRate),
                                                Packets |-> Resize(samplingRate, 8),
                                                InputInterface |-> inputIface,
                                                OutputInterface |-> outputIface,
                                                SamplingRate |-> samplingRate,
                                                PacketSize |-> frameLength,
                                                EtherType |-> etherType,
                                                VlanID |-> vlanID]>>

\* a record loop that ends at the first record that yields no flow
RECURSIVE FlowRecordsUntilNil(_, _, _, _, _)
FlowRecordsUntilNil(d, offset, i, numRecords, agentIP) ==
    IF i >= IntOf(numRecords) \/ offset + 8 > Len(d) THEN <<>>
    ELSE LET recordFormat == Uint32(d, offset)
             recordLength == IntOf(Uint32(d, offset + 4))
             flow == IF /\ EnterpriseOf(recordFormat) = EnterpriseStandard
                        /\ FormatOf(recordFormat) = FlowRawPacketHeader
                     THEN parseRawPacketHeader(
                              Slice(d, offset + 8, offset + 8 + recordLength), agentIP,
                              Uint32(d, 20), Uint32(d, 24), Uint32(d, 8))
                     ELSE <<>>
         IN  IF offset + 8 + recordLength > Len(d) \/ flow = <<>> THEN <<>>
             ELSE flow \o FlowRecordsUntilNil(d, offset + 8 + recordLength, i + 1,
                                               numRecords, agentIP)

\* parseFlowSample: the record loop from iteration i on, at offset
RECURSIVE FlowRecords(_, _, _, _, _)
FlowRecords(d, offset, i, numRecords, agentIP) ==
    IF i >= IntOf(numRecords) \/ offset + 8 > Len(d) THEN <<>>
    ELSE LET recordFormat == Uint32(d, offset)
             recordLength == IntOf(Uint32(d, offset + 4))
         IN  IF offset + 8 + recordLength > Len(d) THEN <<>>
             ELSE (IF /\ EnterpriseOf(recordFormat) = EnterpriseStandard
                      /\ FormatOf(recordFormat) = FlowRawPacketHeader
                   THEN parseRawPacketHeader(
                            Slice(d, offset + 8, offset + 8 + recordLength), agentIP,
                            Uint32(d, 20), Uint32(d, 24), Uint32(d, 8))
                   ELSE <<>>)
                  \o FlowRecords(d, offset + 8 + recordLength, i + 1, numRecords, agentIP)

\* parseFlowSample(data, agentIP, timestamp, uptime)
parseFlowSample(d, agentIP) ==
    IF Len(d) < 32 THEN [flows |-> <<>>, err |-> "flow sample too short"]
    ELSE [flows |-> FlowRecords(d, 32, 0, Uint32(d, 28), agentIP), err |-> "nil"]

\* Parse: the sample loop from iteration i on, at offset; the records of the
\* samples and the number of p.ParseErrors++ done
RECURSIVE Samples(_, _, _, _, _)
Samples(d, offset, i, numSamples, agentIP) ==
    IF i >= IntOf(numSamples) \/ offset + 8 > Len(d) THEN [flows |-> <<>>, errors |-> 0]
    ELSE LET sampleFormat == Uint32(d, offset)
             sampleLength == IntOf(Uint32(d, offset + 4))
         IN  IF offset + 8 + sampleLength > Len(d) THEN [flows |-> <<>>, errors |-> 1]
             ELSE LET sampleData == Slice(d, offset + 8, offset + 8 + sampleLength)
                      sampleFlows ==
                          IF /\ EnterpriseOf(sampleFormat) = EnterpriseStandard
                             /\ FormatOf(sampleFormat)
                                    \in {SampleFlowSample, SampleFlowSampleExpanded}
                          THEN parseFlowSample(sampleData, agentIP).flows
                          ELSE <<>>
                      rest == Samples(d, offset + 8 + sampleLength, i + 1, numSamples,
                                      agentIP)
                  IN  [flows |-> sampleFlows \o rest.flows, errors |-> rest.errors]

\* Parse after the agent address: sub-agent id, sequence number, uptime and
\* number of samples are sliced from data with no test of len(data). A slice
\* expression is checked against the capacity: the reads panic when the
\* backing array buf ends before offset + 16, and they return the bytes that
\* follow the datagram in buf otherwise.
SflowSamples(buf, n, offset, agentIP, stats) ==
    IF offset + 16 > Len(buf) THEN [flows |-> <<>>, err |-> "panic", stats |-> stats]
    ELSE LET r == Samples(Slice(buf, 0, n), offset + 16, 0, Uint32(buf, offset + 12),
                          agentIP)
         IN  [flows |-> r.flows, err |-> "nil",
              stats |-> [PacketsParsed |-> stats.PacketsParsed + 1,
                         RecordsParsed |-> stats.RecordsParsed + Len(r.flows),
                         ParseErrors |-> stats.ParseErrors + r.errors]]

\* sflow.Parser.Parse(data) for data = buf[:n], on a parser with statistics stats
SflowParse(buf, n, stats) ==
    LET d == Slice(buf, 0, n)
    IN  IF n < 28 THEN Reject(stats, "sFlow packet too short")
        ELSE IF Uint32(d, 0) # FromInt(SFlowVersion5, 4)
        THEN Reject(stats, "unsupported sFlow version")
        ELSE IF Uint32(d, 4) = FromInt(1, 4)
        THEN IF n < 8 + 4 THEN Reject(stats, "too short for IPv4 agent address")
             ELSE SflowSamples(buf, n, 12, Slice(d, 8, 12), stats)
        ELSE IF Uint32(d, 4) = FromInt(2, 4)
        THEN IF n < 8 + 16 THEN Reject(stats, "too short for IPv6 agent address")
             ELSE SflowSamples(buf, n, 24, Slice(d, 8, 24), stats)
        ELSE Reject(stats, "invalid address type")

\* make([]FlowRecord, 0, n): the runtime asks the system for n times the
\* size of a FlowRecord. Whether it gets it depends on the memory of the
\* host; a request for 2^24 records or more (IntOf's largest value, some
\* gigabytes) may end the process with "fatal error: out of memory"
MakeSlice(n) == IF IntOf(n) >= 16777216 THEN {"ok", "out of memory"} ELSE {"ok"}

\* the capacities that parseFlowSample asks of make in the sample loop from
\* iteration i on, at offset: the numRecords of each flow sample parsed
RECURSIVE SampleCapacities(_, _, _, _)
SampleCapacities(d, offset, i, numSamples) ==
    IF i >= IntOf(numSamples) \/ offset + 8 > Len(d) THEN {}
    ELSE LET sampleFormat == Uint32(d, offset)
             sampleLength == IntOf(Uint32(d, offset + 4))
         IN  IF offset + 8 + sampleLength > Len(d) THEN {}
             ELSE (IF /\ EnterpriseOf(sampleFormat) = EnterpriseStandard
                      /\ FormatOf(sampleFormat)
                             \in {SampleFlowSample, SampleFlowSampleExpanded}
                      /\ sampleLength >= 32
                   THEN {Uint32(d, offset + 8 + 28)}
                   ELSE {})
                  \cup SampleCapacities(d, offset + 8 + sampleLength, i + 1, numSamples)

\* the sampleData that the sample loop hands to the record loop of
\* parseFlowSample, from iteration i on, at offset
RECURSIVE FlowSampleData(_, _, _, _)
FlowSampleData(d, offset, i, numSamples) ==
    IF i >= IntOf(numSamples) \/ offset + 8 > Len(d) THEN {}
    ELSE LET sampleFormat == Uint32(d, offset)
             sampleLength == IntOf(Uint32(d, offset + 4))
         IN  IF offset + 8 + sampleLength > Len(d) THEN {}
             ELSE (IF /\ EnterpriseOf(sampleFormat) = EnterpriseStandard
                      /\ FormatOf(sampleFormat)
                             \in {SampleFlowSample, SampleFlowSampleExpanded}
                      /\ sampleLength >= 32
                   THEN {Slice(d, offset + 8, offset + 8 + sampleLength)}
                   ELSE {})
                  \cup FlowSampleData(d, offset + 8 + sampleLength, i + 1, numSamples)

\* the capacities asked of make by a Parse call that gets past the header
\* at offset: numSamples, then those of the flow samples
Capacities(buf, n, offset) ==
    {Uint32(buf, offset + 12)}
        \cup SampleCapacities(Slice(buf, 0, n), offset + 16, 0, Uint32(buf, offset + 12))

\* the iterations the sample loop makes from iteration i on, at offset; one
\* that ends in a break counts
RECURSIVE SampleIterations(_, _, _, _)
SampleIterations(d, offset, i, numSamples) ==
    IF i >= IntOf(numSamples) THEN 0
    ELSE IF offset + 8 > Len(d) THEN 1
    ELSE IF offset + 8 + IntOf(Uint32(d, offset + 4)) > Len(d) THEN 1
    ELSE 1 + SampleIterations(d, offset + 8 + IntOf(Uint32(d, offset + 4)), i + 1,
                              numSamples)

\* the iterations the record loop of parseFlowSample makes from iteration i
\* on, at offset
RECURSIVE RecordIterations(_, _, _, _)
RecordIterations(d, offset, i, numRecords) ==
    IF i >= IntOf(numRecords) THEN 0
    ELSE IF offset + 8 > Len(d) THEN 1
    ELSE IF offset + 8 + IntOf(Uint32(d, offset + 4)) > Len(d) THEN 1
    ELSE 1 + RecordIterations(d, offset + 8 + IntOf(Uint32(d, offset + 4)), i + 1,
                              numRecords)

\* what a Parse call can do: return as SflowParse says, or, when it gets to
\* a make whose capacity the host cannot provide, end the process
SflowOutcomes(buf, n, stats) ==
    LET r == SflowParse(buf, n, stats)
        offset == IF Uint32(buf, 4) = FromInt(2, 4) THEN 24 ELSE 12
    IN  {r} \cup IF /\ r.err = "nil"
                    /\ \E c \in Capacities(buf, n, offset) :
                           "out of memory" \in MakeSlice(c)
                 THEN {[flows |-> <<>>, err |-> "out of memory", stats |-> stats]}
                 ELSE {}

(* -------------------------- sFlow datagrams --------------------------- *)
\* samples of an sFlow datagram built for the parser
MaxSamples == 2

\* an Ethernet frame with an IPv4 packet: TCP 192.168.1.10:443 to 10.0.0.50:54321
TcpFrame ==
    [FrameLength |-> <<0, 0, 5, 220>>, Tag |-> <<>>, EtherType |-> 2048, Prot |-> 6,
     Src |-> <<192, 168, 1, 10>>, Dst |-> <<10, 0, 0, 50>>,
     SrcPort |-> 443, DstPort |-> 54321, Cut |-> 0]

\* a frame of the largest length a record can declare
JumboFrame ==
    [FrameLength |-> <<255, 255, 255, 255>>, Tag |-> <<>>, EtherType |-> 2048,
     Prot |-> 17, Src |-> <<10, 1, 2, 3>>, Dst |-> <<10, 3, 2, 1>>,
     SrcPort |-> 53, DstPort |-> 65535, Cut |-> 0]

\* a flow sample taken at 1 in 1000
SampledFlow ==
    [Format |-> <<0, 0, 0, 1>>, SamplingRate |-> <<0, 0, 3, 232>>,
     Input |-> <<0, 0, 0, 3>>, Output |-> <<0, 0, 0, 4>>, Frames |-> <<TcpFrame>>,
     Cut |-> 0,
     NumRecords |-> <<0, 0, 0, 1>>]

\* a flow sample of an agent that does not sample: sampling rate 0
UnsampledFlow ==
    [Format |-> <<0, 0, 0, 1>>, SamplingRate |-> <<0, 0, 0, 0>>,
     Input |-> <<0, 0, 0, 1>>, Output |-> <<0, 0, 0, 2>>, Frames |-> <<TcpFrame>>,
     Cut |-> 0,
     NumRecords |-> <<0, 0, 0, 1>>]

\* an expanded flow sample format with the largest rate and frame length
LargestFlow ==
    [Format |-> <<0, 0, 0, 3>>, SamplingRate |-> <<255, 255, 255, 255>>,
     Input |-> <<0, 0, 1, 0>>, Output |-> <<64, 0, 0, 0>>, Frames |-> <<JumboFrame>>,
     Cut |-> 0,
     NumRecords |-> <<0, 0, 0, 1>>]

\* a counter sample, which Parse skips
CounterSample ==
    [Format |-> <<0, 0, 0, 2>>, SamplingRate |-> <<0, 0, 0, 0>>,
     Input |-> <<0, 0, 0, 0>>, Output |-> <<0, 0, 0, 0>>, Frames |-> <<>>, Cut |-> 0,
     NumRecords |-> <<0, 0, 0, 0>>]

\* a frame with ethertype 0x86DD, IPv6: only the bytes up to the ethertype
\* matter to the parser
Ipv6Frame ==
    [FrameLength |-> <<0, 0, 0, 86>>, Tag |-> <<>>, EtherType |-> 34525, Prot |-> 58,
     Src |-> <<32, 1, 13, 184>>, Dst |-> <<32, 1, 13, 185>>,
     SrcPort |-> 0, DstPort |-> 0, Cut |-> 0]

\* a frame with an 802.1Q tag, VLAN 100, and ethertype 0x0806, ARP
TaggedArpFrame ==
    [FrameLength |-> <<0, 0, 0, 64>>, Tag |-> <<129, 0, 0, 100>>, EtherType |-> 2054,
     Prot |-> 0, Src |-> <<10, 0, 0, 1>>, Dst |-> <<10, 0, 0, 2>>,
     SrcPort |-> 0, DstPort |-> 0, Cut |-> 0]

\* a frame of 1000 bytes: TCP 1.2.3.4:80 to 5.6.7.8:12345
WebFrame ==
    [FrameLength |-> <<0, 0, 3, 232>>, Tag |-> <<>>, EtherType |-> 2048, Prot |-> 6,
     Src |-> <<1, 2, 3, 4>>, Dst |-> <<5, 6, 7, 8>>, SrcPort |-> 80, DstPort |-> 12345, Cut |-> 0]

\* a flow sample taken at 1 in 512 with records of frames that are not IPv4
\* before a record of an IPv4 frame
MixedFlow ==
    [Format |-> <<0, 0, 0, 1>>, SamplingRate |-> <<0, 0, 2, 0>>,
     Input |-> <<0, 0, 0, 7>>, Output |-> <<0, 0, 0, 9>>,
     Frames |-> <<Ipv6Frame, TaggedArpFrame, WebFrame>>, Cut |-> 0,
     NumRecords |-> <<0, 0, 0, 3>>]

\* a flow sample whose body ends after 16 bytes, inside its fixed fields
TruncatedFlow ==
    [Format |-> <<0, 0, 0, 1>>, SamplingRate |-> <<0, 0, 3, 232>>,
     Input |-> <<0, 0, 0, 3>>, Output |-> <<0, 0, 0, 4>>, Frames |-> <<>>, Cut |-> 16,
     NumRecords |-> <<0, 0, 0, 0>>]

\* a flow sample of two records whose body ends 10 bytes before the end of
\* the second record: that record overruns the sample
OverrunFlow ==
    [Format |-> <<0, 0, 0, 1>>, SamplingRate |-> <<0, 0, 3, 232>>,
     Input |-> <<0, 0, 0, 3>>, Output |-> <<0, 0, 0, 4>>,
     Frames |-> <<TcpFrame, WebFrame>>, Cut |-> 10,
     NumRecords |-> <<0, 0, 0, 2>>]

SampleKinds ==
    {SampledFlow, UnsampledFlow, LargestFlow, CounterSample, MixedFlow, TruncatedFlow,
     OverrunFlow}

\* the TCP frame with an 802.1Q tag: priority 5, VLAN 100
TaggedTcpFrame ==
    [FrameLength |-> <<0, 0, 5, 224>>, Tag |-> <<129, 0, 160, 100>>, EtherType |-> 2048,
     Prot |-> 6, Src |-> <<192, 168, 1, 10>>, Dst |-> <<10, 0, 0, 50>>,
     SrcPort |-> 443, DstPort |-> 54321, Cut |-> 0]

\* the same frame sampled for 17 bytes: the tag, and one byte of the
\* ethertype after it
ShortTaggedFrame == [TaggedTcpFrame EXCEPT !.Cut = 25]

\* the same frame sampled for 14 bytes: it ends after the 0x8100
BareTagFrame == [TaggedTcpFrame EXCEPT !.Cut = 28]

\* a flow sample with the tagged frame, its two short samplings, and the
\* frame without a tag
VlanFlow ==
    [Format |-> <<0, 0, 0, 1>>, SamplingRate |-> <<0, 0, 0, 100>>,
     Input |-> <<0, 0, 0, 5>>, Output |-> <<0, 0, 0, 6>>,
     Frames |-> <<TaggedTcpFrame, ShortTaggedFrame, BareTagFrame, TcpFrame>>,
     Cut |-> 0, NumRecords |-> <<0, 0, 0, 4>>]

\* a flow sample that declares 2^32 - 1 records and holds one
GreedyFlow ==
    [Format |-> <<0, 0, 0, 1>>, SamplingRate |-> <<0, 0, 0, 100>>,
     Input |-> <<0, 0, 0, 5>>, Output |-> <<0, 0, 0, 6>>, Frames |-> <<TcpFrame>>,
     Cut |-> 0, NumRecords |-> <<255, 255, 255, 255>>]

\* the start of a frame: MAC addresses, VLAN tag if any, ethertype, IPv4
\* header of 20 bytes, ports
FrameStart(f) ==
    <<0, 17, 34, 51, 68, 85>> \o <<0, 102, 119, 136, 153, 170>> \o f.Tag
        \o FromInt(f.EtherType, 2)
        \o <<69, 0, 0, 40, 0, 1, 0, 0, 64, f.Prot, 0, 0>> \o f.Src \o f.Dst
        \o FromInt(f.SrcPort, 2) \o FromInt(f.DstPort, 2)

\* the sampled header of a frame: its start, less the last f.Cut bytes
FrameBytes(f) == SubSeq(FrameStart(f), 1, Len(FrameStart(f)) - f.Cut)

\* a raw packet header record: format, length, then header protocol, frame
\* length, stripped, header length, header
RecordBytes(f) ==
    FromInt(FlowRawPacketHeader, 4) \o FromInt(16 + Len(FrameBytes(f)), 4)
        \o <<0, 0, 0, 1>> \o f.FrameLength \o <<0, 0, 0, 4>>
        \o FromInt(Len(FrameBytes(f)), 4) \o FrameBytes(f)

\* FlowSample: the 32 bytes of fixed fields, the last of which is the number
\* of records the sample declares, then the records it holds
FlowSampleBytes(sm) ==
    <<0, 0, 0, 21>> \o <<0, 0, 0, 3>> \o sm.SamplingRate \o <<0, 0, 16, 0>>
        \o <<0, 0, 0, 0>> \o sm.Input \o sm.Output \o sm.NumRecords
        \o Flatten([i \in 1..Len(sm.Frames) |-> RecordBytes(sm.Frames[i])])

\* SampleHeader and sample: the format, the length of the body, and the body,
\* which the exporter ended sm.Cut bytes early
SampleBytes(sm) ==
    LET body == SubSeq(FlowSampleBytes(sm), 1, Len(FlowSampleBytes(sm)) - sm.Cut)
    IN  sm.Format \o FromInt(Len(body), 4) \o body

\* the agent addresses of the address types
AgentAddress(AddressType) ==
    IF AddressType = 1 THEN <<192, 168, 1, 1>>
    ELSE IF AddressType = 2 THEN <<32, 1, 13, 184>> \o Zeros(11) \o <<1>>
    ELSE <<>>

\* SFlowHeader: version, address type, agent address, sub-agent id, sequence
\* number, uptime, number of samples
SflowHeaderBytes(w) ==
    FromInt(w.Version, 4) \o FromInt(w.AddressType, 4) \o AgentAddress(w.AddressType)
        \o <<0, 0, 0, 0>> \o <<0, 0, 0, 8>> \o <<0, 1, 0, 0>> \o w.NumSamples

\* the whole datagram of w, before it is cut or padded to w.Size bytes
SflowBytes(w) ==
    SflowHeaderBytes(w) \o Flatten([i \in 1..Len(w.Samples) |-> SampleBytes(w.Samples[i])])

\* the receive buffer after ReadFromUDP: the datagram, then what an earlier
\* datagram left behind
SflowBuffer(w) == Datagram(SflowBytes(w), w.Size) \o w.Stale

\* bytes left in the receive buffer by an earlier, longer datagram
StaleBytes == <<0, 0, 0, 9, 0, 0, 0, 1, 0, 0, 0, 0, 0, 0, 0, 2>>

\* the length of the header for an address type
SflowHeaderLen(AddressType) == IF AddressType = 2 THEN 40 ELSE 28

\* datagram lengths around the header and around the whole datagram w: cut
\* short, cut inside the first sample, one byte short, exact, trailing bytes
SflowSizes(w) ==
    {0, 27, 28, 39, 40, SflowHeaderLen(w.AddressType) + 16}
        \cup {Len(SflowBytes(w)) + j : j \in {-1, 0, 3}}

\* datagrams of every version, address type and buffer, with no sample or
\* one flow sample
SflowHeaderCases ==
    UNION {[Version : {SFlowVersion5, 4}, AddressType : {1, 2, 3},
            NumSamples : {FromInt(k, 4)}, Samples : [1..k -> {SampledFlow, UnsampledFlow}],
            Size : {0}, Stale : {<<>>, StaleBytes}] : k \in 0..1}

\* version 5 datagrams of an IPv4 agent with up to MaxSamples samples of
\* every kind
SflowSampleCases ==
    UNION {[Version : {SFlowVersion5}, AddressType : {1}, NumSamples : {FromInt(k, 4)},
            Samples : [1..k -> SampleKinds], Size : {0}, Stale : {<<>>}]
               : k \in 0..MaxSamples}

\* the inputs of Parse: the fields of the datagram, its length, and the rest
\* of the buffer it was read into
SflowDatagrams ==
    UNION {{[w EXCEPT !.Size = n] : n \in SflowSizes(w)} :
        w \in SflowHeaderCases \cup SflowSampleCases}

\* version 5 datagrams of an IPv4 agent that declare as many samples as they
\* hold, or 2^32 - 1, with tagged frames and with samples that declare more
\* records than they hold
SflowEdgeCases ==
    UNION {[Version : {SFlowVersion5}, AddressType : {1},
            NumSamples : {FromInt(k, 4), <<255, 255, 255, 255>>},
            Samples : [1..k -> {SampledFlow, VlanFlow, GreedyFlow}], Size : {0},
            Stale : {<<>>}] : k \in 0..MaxSamples}

SflowEdgeDatagrams ==
    UNION {{[w EXCEPT !.Size = n] : n \in SflowSizes(w)} : w \in SflowEdgeCases}

(* ------------------------- decoder under test ------------------------- *)
\* the agent's state, which a Parse call does not touch
agentVars == <<agent, ctxDone, flowBuffer, tick, writerVars, workerVars, statsPc>>

\* a NetFlow datagram has been read for a parser
NetflowInit ==
    /\ NewTelemetryAgent
    /\ socket = [p \in Protos |-> NoOwner]
    /\ statsPc = "off"
    /\ wire \in NetflowDatagrams
    /\ data = V5Packet(wire)
    /\ parserStats \in ParsersInUse
    /\ parsed = NotParsed
    /\ NoGraph
    /\ NoCalls

\* flows, err := a.netflowParser.Parse(buffer[:n], remoteAddr.IP)
ParseNetflow ==
    /\ parsed = NotParsed
    /\ LET r == NetflowParse(data, wire.ExporterIP, parserStats)
       IN  /\ parsed' = [flows |-> r.flows, err |-> r.err]
           /\ parserStats' = r.stats
    /\ UNCHANGED <<data, wire, agentVars, routingVars, callVars>>

NetflowSpec == NetflowInit /\ [][ParseNetflow]_vars

\* calls of Parse made on one parser before the model stops counting
MaxCalls == 3

\* the same payload is given to Parse again, with the same exporter address,
\* on the parser that decoded it or on a new one
ParseNetflowAgain ==
    /\ parsed # NotParsed
    /\ \E p \in {parserStats, NewParser} :
          /\ p.PacketsParsed + p.ParseErrors < MaxCalls
          /\ LET r == NetflowParse(data, wire.ExporterIP, p)
             IN  /\ parsed' = [flows |-> r.flows, err |-> r.err]
                 /\ parserStats' = r.stats
    /\ UNCHANGED <<data, wire, agentVars, routingVars, callVars>>

ReparseNext == ParseNetflow \/ ParseNetflowAgain

ReparseSpec == NetflowInit /\ [][ReparseNext]_vars

\* an sFlow datagram has been read for a parser, into a buffer that may hold
\* bytes of earlier datagrams after it
SflowInit ==
    /\ NewTelemetryAgent
    /\ socket = [p \in Protos |-> NoOwner]
    /\ statsPc = "off"
    /\ wire \in SflowDatagrams
    /\ data = Datagram(SflowBytes(wire), wire.Size)
    /\ parserStats \in ParsersInUse
    /\ parsed = NotParsed
    /\ NoGraph
    /\ NoCalls

\* flows, err := a.sflowParser.Parse(buffer[:n])
ParseSflow ==
    /\ parsed = NotParsed
    /\ \E r \in SflowOutcomes(SflowBuffer(wire), Len(data), parserStats) :
          /\ parsed' = [flows |-> r.flows, err |-> r.err]
          /\ parserStats' = r.stats
    /\ UNCHANGED <<data, wire, agentVars, routingVars, callVars>>

SflowSpec == SflowInit /\ [][ParseSflow]_vars

\* an sFlow datagram with tagged frames or large declared counts has been
\* read for a new parser
SflowEdgeInit ==
    /\ NewTelemetryAgent
    /\ socket = [p \in Protos |-> NoOwner]
    /\ statsPc = "off"
    /\ wire \in SflowEdgeDatagrams
    /\ data = Datagram(SflowBytes(wire), wire.Size)
    /\ parserStats = NewParser
    /\ parsed = NotParsed
    /\ NoGraph
    /\ NoCalls

SflowEdgeSpec == SflowEdgeInit /\ [][ParseSflow]_vars

(* ---------------------- concurrent Parse calls ------------------------ *)
\* goroutines that call Parse on the one parser at the same time
MaxCallers == 2

Callers == 1..MaxCallers

\* the datagrams of the concurrent calls: version 5 with 0..MaxCount records
\* and the length that goes with the count, and a version Parse rejects
RaceDatagrams ==
    {[Version |-> v, Count |-> c, SamplingInterval |-> 0,
      UnixSecs |-> <<101, 0, 0, 0>>, UnixNsecs |-> <<0, 0, 0, 9>>,
      Records |-> [i \in 1..c |-> TestRecord], Size |-> headerSize + c * recordSize,
      ExporterIP |-> <<192, 168, 1, 1>>] : v \in {NetFlowV5, 255}, c \in 0..MaxCount}

\* what Parse returns for the datagram of w, statistics apart
Outcome(w) == NetflowParse(V5Packet(w), w.ExporterIP, NewParser)

\* the statements of a Parse call that change the statistics, in program
\* order: p.ParseErrors++ before an error return, p.PacketsParsed++ and
\* p.RecordsParsed += uint64(len(flows)) before a return of flows
Updates(w) ==
    IF Outcome(w).err # "nil" THEN <<[field |-> "ParseErrors", by |-> 1]>>
    ELSE <<[field |-> "PacketsParsed", by |-> 1],
           [field |-> "RecordsParsed", by |-> Len(Outcome(w).flows)]>>

\* every goroutine is about to call Parse on a new parser, each with the
\* datagram it has read into its own buffer
RaceInit ==
    /\ NewTelemetryAgent
    /\ socket = [p \in Protos |-> NoOwner]
    /\ statsPc = "off"
    /\ NoDatagram
    /\ NoGraph
    /\ rows = <<>>
    /\ calls \in [Callers -> {[wire |-> w, pc |-> "call", todo |-> Updates(w), reg |-> 0]
                                 : w \in RaceDatagrams}]

\* the counter of the next update is read: the ++ and += of the code are a
\* read and a write of a plain uint64 field, with no lock and no atomic
LoadCounter(c) ==
    /\ calls[c].pc \in {"call", "load"}
    /\ calls[c].todo # <<>>
    /\ calls' = [calls EXCEPT ![c].reg = parserStats[Head(calls[c].todo).field],
                              ![c].pc = "store"]
    /\ UNCHANGED <<data, wire, parserStats, parsed, rows, agentVars, routingVars>>

\* the value read, plus the increment, is written back; after the last
\* update the call returns
StoreCounter(c) ==
    /\ calls[c].pc = "store"
    /\ LET u == Head(calls[c].todo)
       IN  /\ parserStats' = [parserStats EXCEPT ![u.field] = calls[c].reg + u.by]
           /\ calls' = [calls EXCEPT ![c].todo = Tail(@),
                                     ![c].pc = IF Len(calls[c].todo) = 1 THEN "returned"
                                               ELSE "load"]
    /\ UNCHANGED <<data, wire, parsed, rows, agentVars, routingVars>>

RaceNext == \E c \in Callers : LoadCounter(c) \/ StoreCounter(c)

RaceSpec == RaceInit /\ [][RaceNext]_vars

(* ------------------------ rows of flow_records ------------------------ *)
\* net.IP.String(): dotted decimal for 4 bytes and for an IPv4-mapped
\* address of 16 bytes, the text of an IPv6 address for other 16 bytes,
\* "<nil>" for no byte, and "?" followed by the bytes in hex for any other
\* length. The text is a new string: it shares nothing with the bytes read.
IPString(ip) ==
    CASE Len(ip) = 4 -> [text |-> "dotted", of |-> ip]
      [] Len(ip) = 16 /\ SubSeq(ip, 1, 12) = Zeros(10) \o <<255, 255>> ->
             [text |-> "dotted", of |-> SubSeq(ip, 13, 16)]
      [] Len(ip) = 16 -> [text |-> "ipv6", of |-> ip]
      [] Len(ip) = 0 -> [text |-> "<nil>", of |-> <<>>]
      [] OTHER -> [text |-> "?hex", of |-> ip]

\* the zero value of a string field that a composite literal leaves out
EmptyString == [text |-> "", of |-> <<>>]

\* int32(x) and int64(x) of an unsigned x of the same width: the same bits,
\* read as two's complement, so a value with the top bit set is negative
Signed(x) ==
    IF x[1] >= 128 THEN [neg |-> TRUE, mag |-> SubBorrow(Zeros(Len(x)), x, 0)]
    ELSE [neg |-> FALSE, mag |-> x]

\* net.IP(recordData[lo:hi]): a slice of the receive buffer, not a copy; the
\* bytes at offset off of record i of the datagram
SliceOf(i, off) ==
    [lo |-> headerSize + (i - 1) * recordSize + off,
     hi |-> headerSize + (i - 1) * recordSize + off + 4]

\* the bytes a slice of the buffer holds now
Deref(buf, ip) == Slice(buf, ip.lo, ip.hi)

\* the flows of parseV5 with srcAddr, dstAddr and nextHop as the slices of
\* the buffer that they are
Aliased(flows) ==
    [i \in 1..Len(flows) |->
        [flows[i] EXCEPT !.SourceIP = SliceOf(i, 0), !.DestinationIP = SliceOf(i, 4),
                         !.NextHopIP = SliceOf(i, 8)]]

\* a row that keeps the slice of the buffer in place of its text
AddressSlice(buf, ip) == ip

\* flow.SourceIP.String() and the like, on the buffer as it is at the call
AddressText(buf, ip) == IPString(Deref(buf, ip))

\* netflowCollector: the database.FlowRecordDB built from a flow
NetflowRow(buf, flow) ==
    [Time |-> flow.Timestamp,
     ExporterIP |-> IPString(flow.ExporterIP),
     SourceIP |-> AddressText(buf, flow.SourceIP),
     DestinationIP |-> AddressText(buf, flow.DestinationIP),
     SourcePort |-> flow.SourcePort,
     DestPort |-> flow.DestPort,
     Protocol |-> flow.Protocol,
     Bytes |-> Signed(flow.Bytes),
     Packets |-> Signed(flow.Packets),
     TCPFlags |-> flow.TCPFlags,
     ToS |-> flow.ToS,
     InputInterface |-> Signed(flow.InputInterface),
     OutputInterface |-> Signed(flow.OutputInterface),
     NextHopIP |-> AddressText(buf, flow.NextHopIP),
     SourceAS |-> Signed(flow.SourceAS),
     DestAS |-> Signed(flow.DestAS),
     FlowDuration |-> Signed(flow.FlowDuration),
     SamplingRate |-> Signed(flow.SamplingRate)]

\* ReadFromUDP(buffer): the datagram is written at the start of the buffer,
\* the bytes after it stay
ReadFromUDP(buf, d) == d \o SubSeq(buf, Len(d) + 1, Len(buf))

\* the datagrams a collector receives: version 5 with 1..MaxCount records of
\* two kinds with different addresses, and the same under a version that
\* Parse rejects
CollectedDatagrams ==
    UNION {[Version : {NetFlowV5, NetFlowV9}, Count : {c}, SamplingInterval : {0},
            UnixSecs : {<<101, 0, 0, 0>>}, UnixNsecs : {<<0, 0, 0, 9>>},
            Records : [1..c -> {TestRecord, LargeRecord}],
            Size : {headerSize + c * recordSize},
            ExporterIP : {<<192, 168, 1, 1>>}] : c \in 1..MaxCount}

\* the collector is at the top of its loop
Idle == [flows |-> <<>>, err |-> "idle"]

\* a NetFlow collector that has bound its socket: buffer := make([]byte, 9000),
\* here of the length of the longest datagram
NetflowCollectInit ==
    /\ NewTelemetryAgent
    /\ socket = [p \in Protos |-> NoOwner]
    /\ statsPc = "off"
    /\ data = Zeros(headerSize + MaxCount * recordSize)
    /\ wire = <<>>
    /\ parserStats = NewParser
    /\ parsed = Idle
    /\ NoGraph
    /\ NoCalls

\* n, remoteAddr, err := conn.ReadFromUDP(buffer) returns a datagram
CollectRead ==
    /\ parsed = Idle
    /\ parserStats.PacketsParsed + parserStats.ParseErrors < MaxDatagrams
    /\ \E w \in CollectedDatagrams :
          /\ wire' = w
          /\ data' = ReadFromUDP(data, V5Packet(w))
    /\ parsed' = NotParsed
    /\ UNCHANGED <<parserStats, agentVars, routingVars, callVars>>

\* flows, err := a.netflowParser.Parse(buffer[:n], remoteAddr.IP); continue
\* on an error
CollectParse ==
    /\ parsed = NotParsed
    /\ LET r == NetflowParse(Slice(data, 0, wire.Size), wire.ExporterIP, parserStats)
       IN  /\ parsed' = IF r.err = "nil" THEN [flows |-> Aliased(r.flows), err |-> r.err]
                         ELSE Idle
           /\ parserStats' = r.stats
    /\ UNCHANGED <<data, wire, agentVars, routingVars, callVars>>

\* for _, flow := range flows: each flow is converted and offered to the
\* channel. A row is kept with the record of the datagram it was built from
\* and what it read when it was built.
CollectConvert ==
    /\ parsed.err = "nil"
    /\ rows' = rows \o [i \in 1..Len(parsed.flows) |->
                           [row |-> NetflowRow(data, parsed.flows[i]),
                            from |-> wire.Records[i]]]
    /\ parsed' = Idle
    /\ UNCHANGED <<data, wire, parserStats, calls, agentVars, routingVars>>

NetflowCollectNext == CollectRead \/ CollectParse \/ CollectConvert

NetflowCollectSpec == NetflowCollectInit /\ [][NetflowCollectNext]_vars

\* sflowCollector: the database.FlowRecordDB built from a flow. The literal
\* names no TCPFlags, ToS, NextHopIP, SourceAS, DestAS and FlowDuration, which
\* are left at their zero values
SflowRow(flow) ==
    [Time |-> "now",
     ExporterIP |-> IPString(flow.AgentIP),
     SourceIP |-> IPString(flow.SourceIP),
     DestinationIP |-> IPString(flow.DestinationIP),
     SourcePort |-> flow.SourcePort,
     DestPort |-> flow.DestPort,
     Protocol |-> flow.Protocol,
     Bytes |-> Signed(flow.Bytes),
     Packets |-> Signed(flow.Packets),
     TCPFlags |-> 0,
     ToS |-> 0,
     InputInterface |-> Signed(flow.InputInterface),
     OutputInterface |-> Signed(flow.OutputInterface),
     NextHopIP |-> EmptyString,
     SourceAS |-> Signed(Zeros(4)),
     DestAS |-> Signed(Zeros(4)),
     FlowDuration |-> Signed(Zeros(4)),
     SamplingRate |-> Signed(flow.SamplingRate)]

\* sflowCollector, for _, flow := range flows: each flow Parse returned is
\* converted and offered to the channel; a row is kept with its flow
SflowConvert ==
    /\ parsed.err = "nil"
    /\ parsed.flows # <<>>
    /\ rows = <<>>
    /\ rows' = [i \in 1..Len(parsed.flows) |->
                   [row |-> SflowRow(parsed.flows[i]), flow |-> parsed.flows[i]]]
    /\ UNCHANGED <<decoderVars, calls, agentVars, routingVars>>

SflowCollectNext == ParseSflow \/ SflowConvert

\* the sFlow collector from the datagram it has read to the rows it sends
SflowCollectSpec == SflowInit /\ [][SflowCollectNext]_vars

(* ------------------------------ routing ------------------------------- *)
\* Costs are float64 in the code. They are integers here: the sums are
\* exact, as they are for floats of this size.

\* math.Inf(1)
Inf == 1000000

\* a call that returned an error
Failed(err) == [Nodes |-> <<>>, TotalCost |-> 0, err |-> err]

\* g.Edges[from]: the neighbors of a node
Neighbors(g, from) == {to \in g.Nodes : <<from, to>> \in DOMAIN g.Edges}

\* a queue that hands out any of its items
AnyItems(pq) == pq

\* heap.Pop(pq): an item of least priority; which one of several is up to the
\* shape of the heap
MinItems(pq) == {it \in pq : \A other \in pq : it[2] <= other[2]}

\* Dijkstra: the loop over the neighbors of current. Every neighbor that is
\* not visited and gets nearer has its distance and previous node set and is
\* pushed; the order of the neighbors makes no difference to the result
Relax(g, st, current) ==
    LET newDistance(n) == st.distances[current] + g.Edges[<<current, n>>]
        nearer == {n \in Neighbors(g, current) :
                      n \notin st.visited /\ newDistance(n) < st.distances[n]}
    IN  [distances |-> [n \in g.Nodes |->
                           IF n \in nearer THEN newDistance(n) ELSE st.distances[n]],
         previous |-> [n \in DOMAIN st.previous \cup nearer |->
                          IF n \in nearer THEN current ELSE st.previous[n]],
         visited |-> st.visited,
         pq |-> st.pq \cup {<<n, newDistance(n)>> : n \in nearer}]

\* Dijkstra: for pq.Len() > 0, from the state st on; the states the loop can
\* end in
RECURSIVE Search(_, _, _)
Search(g, destination, st) ==
    IF st.pq = {} THEN {st}
    ELSE UNION {LET current == it[1]
                    popped == [st EXCEPT !.pq = @ \ {it}]
                    seen == [popped EXCEPT !.visited = @ \cup {current}]
                IN  IF current \in st.visited THEN Search(g, destination, popped)
                    ELSE IF current = destination THEN {seen}
                    ELSE Search(g, destination, Relax(g, seen, current))
                   : it \in MinItems(st.pq)}

\* reconstructPath: the nodes from source to current along previous
RECURSIVE PathNodes(_, _, _)
PathNodes(previous, source, current) ==
    IF current = source THEN <<source>>
    ELSE Append(PathNodes(previous, source, previous[current]), current)

\* the sum of edge.Cost along nodes
RECURSIVE TotalCost(_, _)
TotalCost(g, nodes) ==
    IF Len(nodes) < 2 THEN 0
    ELSE g.Edges[<<nodes[1], nodes[2]>>] + TotalCost(g, Tail(nodes))

\* a Path of g with its metric
PathOf(g, nodes) == [Nodes |-> nodes, TotalCost |-> TotalCost(g, nodes), err |-> "nil"]

\* g.Dijkstra(source, destination): the returns the call can make
Dijkstra(g, source, destination) ==
    IF source \notin g.Nodes THEN {Failed("source node not found")}
    ELSE IF destination \notin g.Nodes THEN {Failed("destination node not found")}
    ELSE {IF st.distances[destination] = Inf THEN Failed("no path found")
          ELSE PathOf(g, PathNodes(st.previous, source, destination))
             : st \in Search(g, destination,
                             [distances |-> [n \in g.Nodes |->
                                                IF n = source THEN 0 ELSE Inf],
                              previous |-> <<>>, visited |-> {},
                              pq |-> {<<source, 0>>}])}

\* pathsSharePrefix(path1, path2, length)
pathsSharePrefix(path1, path2, length) ==
    /\ Len(path1) >= length
    /\ Len(path2) >= length
    /\ \A i \in 1..length : path1[i] = path2[i]

\* copyGraphForYen(existingPaths, rootPath, index): g without the edges that
\* existing paths with the first index nodes of rootPath take at index
copyGraphForYen(g, existingPaths, rootPath, index) ==
    LET shouldRemove(from, to) ==
            \E p \in 1..Len(existingPaths) :
                LET nodes == existingPaths[p].Nodes
                IN  /\ index < Len(nodes) - 1
                    /\ pathsSharePrefix(rootPath, nodes, index)
                    /\ from = nodes[index + 1]
                    /\ to = nodes[index + 2]
        kept == {e \in DOMAIN g.Edges : ~shouldRemove(e[1], e[2])}
    IN  [Nodes |-> g.Nodes, Edges |-> [e \in kept |-> g.Edges[e]]]

\* combinePaths(rootPath, spurPath)
combinePaths(g, rootPath, spurPath) == PathOf(g, rootPath \o spurPath.Nodes)

\* pathExists(paths, newPath)
pathExists(paths, newPath) == \E p \in 1..Len(paths) : paths[p].Nodes = newPath.Nodes

\* sort.Slice(candidates, by TotalCost): the orders the sort can leave, which
\* is not stable
Sorted(candidates) ==
    {[i \in 1..Len(candidates) |-> candidates[f[i]]] :
        f \in {f \in [1..Len(candidates) -> 1..Len(candidates)] :
                  /\ \A i, j \in 1..Len(candidates) : i # j => f[i] # f[j]
                  /\ \A i \in 1..(Len(candidates) - 1) :
                         candidates[f[i]].TotalCost <= candidates[f[i + 1]].TotalCost}}

(* ------------------------------- graphs -------------------------------- *)
\* the largest cost of an edge, and the largest k of a call
MaxCost == 2

MaxK == 3

\* the nodes of the graphs, as the tests name them
NodeIDs == <<"R1", "R2", "R3", "R4">>

\* the pairs of nodes that a link can join
Links == {l \in (1..Len(NodeIDs)) \X (1..Len(NodeIDs)) : l[1] < l[2]}

\* what joins a pair: nothing, AddBidirectionalEdge with a cost, or AddEdge
\* one way with cost 1
LinkKinds ==
    {[Cost |-> c, Both |-> TRUE] : c \in 0..MaxCost} \cup {[Cost |-> 1, Both |-> FALSE]}

\* NewGraph, AddNode for each node, and the edges of the links
GraphOf(links) ==
    LET edges == {<<NodeIDs[l[1]], NodeIDs[l[2]]>> : l \in {l \in Links : links[l].Cost > 0}}
                     \cup {<<NodeIDs[l[2]], NodeIDs[l[1]]>> :
                              l \in {l \in Links : links[l].Cost > 0 /\ links[l].Both}}
        link(e) == CHOOSE l \in Links :
                       {NodeIDs[l[1]], NodeIDs[l[2]]} = {e[1], e[2]}
    IN  [Nodes |-> {NodeIDs[i] : i \in 1..Len(NodeIDs)},
         Edges |-> [e \in edges |-> links[link(e)].Cost]]

Graphs == {GraphOf(links) : links \in [Links -> LinkKinds]}

\* a graph with nodes and no edge
NoEdges == GraphOf([l \in Links |-> [Cost |-> 0, Both |-> TRUE]])

\* the test's graph of four routers: two paths of two links of cost 1, and a
\* direct link of cost MaxCost
TestGraph ==
    GraphOf([l \in Links |->
                IF l \in {<<1, 2>>, <<2, 4>>, <<1, 3>>, <<3, 4>>}
                THEN [Cost |-> 1, Both |-> TRUE]
                ELSE IF l = <<1, 4>> THEN [Cost |-> MaxCost, Both |-> TRUE]
                ELSE [Cost |-> 0, Both |-> TRUE]])

\* Dijkstra calls: between the first and the last node on every graph, and
\* with a source or destination that is itself or not a node
DijkstraCalls ==
    {[g |-> g, source |-> q[1], destination |-> q[2]] :
        g \in Graphs, q \in {<<"R1", "R4">>, <<"R4", "R1">>}}
    \cup {[g |-> g, source |-> q[1], destination |-> q[2]] :
             g \in {NoEdges, TestGraph},
             q \in {<<"R1", "R1">>, <<"R9", "R4">>, <<"R1", "R9">>, <<"R9", "R9">>}}

(* ------------------------- routing under test -------------------------- *)
\* a Dijkstra call is about to be made
DijkstraInit ==
    /\ NewTelemetryAgent
    /\ socket = [p \in Protos |-> NoOwner]
    /\ statsPc = "off"
    /\ NoDatagram
    /\ NoCalls
    /\ \E c \in DijkstraCalls :
          /\ graph = c.g
          /\ routing = [pc |-> "call", source |-> c.source,
                        destination |-> c.destination]

\* path, err := g.Dijkstra(source, destination)
DijkstraReturn ==
    /\ routing.pc = "call"
    /\ \E path \in Dijkstra(graph, routing.source, routing.destination) :
          routing' = [pc |-> "done", source |-> routing.source,
                      destination |-> routing.destination, path |-> path]
    /\ UNCHANGED <<graph, agentVars, decoderVars, callVars>>

DijkstraSpec == DijkstraInit /\ [][DijkstraReturn]_vars

\* FindKShortestPaths calls: from the first to the last node on every graph,
\* and from or to what is not a node
KspCalls ==
    {[g |-> g, source |-> "R1", destination |-> "R4", k |-> k] :
        g \in Graphs, k \in 1..MaxK}
    \cup {[g |-> TestGraph, source |-> q[1], destination |-> q[2], k |-> MaxK] :
             q \in {<<"R9", "R4">>, <<"R1", "R9">>}}

\* a FindKShortestPaths call is about to be made
KspInit ==
    /\ NewTelemetryAgent
    /\ socket = [p \in Protos |-> NoOwner]
    /\ statsPc = "off"
    /\ NoDatagram
    /\ NoCalls
    /\ \E c \in KspCalls :
          /\ graph = c.g
          /\ routing = [pc |-> "first", source |-> c.source,
                        destination |-> c.destination, k |-> c.k, paths |-> <<>>,
                        candidates |-> <<>>, i |-> 0, j |-> 0, err |-> "nil"]

\* firstPath, err := g.Dijkstra(source, destination), and the return of its
\* error
KspFirstPath ==
    /\ routing.pc = "first"
    /\ \E firstPath \in Dijkstra(graph, routing.source, routing.destination) :
          routing' = IF firstPath.err # "nil"
                     THEN [routing EXCEPT !.pc = "done", !.err = firstPath.err]
                     ELSE [routing EXCEPT !.pc = "loop", !.paths = <<firstPath>>,
                                          !.i = 1, !.j = 0]
    /\ UNCHANGED <<graph, agentVars, decoderVars, callVars>>

\* one turn of the loop over the nodes of the previous path: the spur path
\* from node j in the graph without the edges taken before, joined to the root
KspSpur ==
    /\ routing.pc = "loop"
    /\ routing.i < routing.k
    /\ routing.j < Len(routing.paths[routing.i].Nodes) - 1
    /\ LET previousPath == routing.paths[routing.i]
           spurNode == previousPath.Nodes[routing.j + 1]
           rootPath == SubSeq(previousPath.Nodes, 1, routing.j + 1)
           tempGraph == copyGraphForYen(graph, routing.paths, rootPath, routing.j)
       IN  \E spurPath \in Dijkstra(tempGraph, spurNode, routing.destination) :
               LET totalPath == combinePaths(graph, Front(rootPath), spurPath)
               IN  routing' =
                       [routing EXCEPT
                           !.j = @ + 1,
                           !.candidates =
                               IF /\ spurPath.err = "nil"
                                  /\ ~pathExists(routing.candidates, totalPath)
                                  /\ ~pathExists(routing.paths, totalPath)
                               THEN Append(@, totalPath) ELSE @]
    /\ UNCHANGED <<graph, agentVars, decoderVars, callVars>>

\* the end of a turn of the loop over i: break with no candidate, or the
\* candidate of least cost becomes the next path
KspSelect ==
    /\ routing.pc = "loop"
    /\ routing.i < routing.k
    /\ routing.j >= Len(routing.paths[routing.i].Nodes) - 1
    /\ IF routing.candidates = <<>>
       THEN routing' = [routing EXCEPT !.pc = "done"]
       ELSE \E candidates \in Sorted(routing.candidates) :
                routing' = [routing EXCEPT !.paths = Append(@, candidates[1]),
                                           !.candidates = Tail(candidates),
                                           !.i = @ + 1, !.j = 0]
    /\ UNCHANGED <<graph, agentVars, decoderVars, callVars>>

\* return paths, nil after the loop
KspReturn ==
    /\ routing.pc = "loop"
    /\ routing.i >= routing.k
    /\ routing' = [routing EXCEPT !.pc = "done"]
    /\ UNCHANGED <<graph, agentVars, decoderVars, callVars>>

KspNext == KspFirstPath \/ KspSpur \/ KspSelect \/ KspReturn

KspSpec == KspInit /\ [][KspNext]_vars

(* ------------------------- derived quantities ------------------------- *)
\* records_written_ok: the agent keeps no such counter; it is the number of
\* rows its successful inserts have put into flow_records
RecordsWrittenOk == Len(dbTable)

RECURSIVE FailedRecords(_)
FailedRecords(log) ==
    IF log = <<>> THEN 0
    ELSE (IF Head(log).ok THEN 0 ELSE Len(Head(log).recs)) + FailedRecords(Tail(log))

\* records of the batches whose insert failed
RecordsInFailedBatches == FailedRecords(insertLog)

\* how many times record r has been handed to InsertFlowRecords
Occurrences(r) ==
    Cardinality({ij \in UNION {{<<i, j>> : j \in DOMAIN insertLog[i].recs} :
                               i \in DOMAIN insertLog} :
                     insertLog[ij[1]].recs[ij[2]] = r})

InSeq(r, q) == \E i \in DOMAIN q : q[i] = r

\* the step completes an InsertFlowRecords call
InsertReturned == Len(insertLog') = Len(insertLog) + 1

LastInsert == insertLog'[Len(insertLog')]

(* ------------------------------- claims ------------------------------- *)

\* C1: an enqueue attempt never blocks the collector. A collector that is in
\* its enqueue loop can always take its next step, and while no stop signal has
\* been delivered that step accepts the record when the buffer holds fewer than
\* BufferSize records, drops it (and only it) when the buffer is at capacity,
\* and moves the collector on to the next record or read, whatever the state of
\* the writer.
C1_EnqueueStep(w) ==
    (wpc[w] = "enqueue" /\ ~ctxDone /\ pending'[w] # pending[w]) =>
        /\ pending'[w] = Tail(pending[w])
        /\ wpc'[w] = IF Len(pending[w]) = 1 THEN "read" ELSE "enqueue"
        /\ IF Len(flowBuffer) < BufferSize
           THEN /\ flowBuffer' = Append(flowBuffer, Head(pending[w]))
                /\ flowsProcessed' = flowsProcessed + 1
                /\ dropped' = dropped
           ELSE /\ flowBuffer' = flowBuffer
                /\ flowsProcessed' = flowsProcessed
                /\ dropped' = dropped + 1

C1_EnqueueNeverBlocks ==
    /\ [](\A w \in Workers : wpc[w] = "enqueue" => ENABLED Enqueue(w))
    /\ [][\A w \in Workers : C1_EnqueueStep(w)]_vars

\* a record was accepted, a later one was dropped at capacity, and the
\* collector that dropped it went on to its next read, with no stop signal
C1_Witness ==
    /\ ~ctxDone
    /\ dropped >= 1
    /\ flowsProcessed = BufferSize
    /\ Len(flowBuffer) = BufferSize
    /\ \E w \in Workers : wpc[w] = "read"

\* C2 (as claimed): a final flush started by the stop signal on a non-empty
\* batch, with a healthy database, is a successful insert.
C2_FinalFlushSucceeds ==
    \A i \in DOMAIN insertLog :
        (insertLog[i].why = "shutdown" /\ insertLog[i].healthy /\ insertLog[i].recs # <<>>)
            => insertLog[i].ok

\* C3 (as claimed): when the writer has returned, no record is left in the buffer.
C3_BufferDrainedAtExit == writerPc = "done" => flowBuffer = <<>>

\* C4 (as claimed): whenever no collector is in the middle of a datagram, every
\* record the decoders emitted was either accepted or dropped for overflow.
C4_EnqueueConservation ==
    (\A w \in Workers : wpc[w] # "enqueue") => dropped + flowsProcessed = emitted

\* C5: when the writer has exited, its batch is empty and every record it
\* dequeued is in a batch that was submitted to an insert: records written plus
\* records of failed batches equals records dequeued.
C5_WriterConservation ==
    writerPc = "done" =>
        /\ batch = <<>>
        /\ RecordsWrittenOk + RecordsInFailedBatches = dequeued

\* the writer has exited after a successful and a failed batch
C5_Witness ==
    /\ writerPc = "done"
    /\ RecordsWrittenOk >= 1
    /\ RecordsInFailedBatches >= 1

\* C6: every record is handed to a bulk insert at most once, and a record
\* that was handed to one, failed or not, is neither in the buffer nor in the
\* writer's batch afterwards.
C6_AtMostOnce ==
    \A r \in Records :
        /\ Occurrences(r) <= 1
        /\ Occurrences(r) = 1 => (~InSeq(r, flowBuffer) /\ ~InSeq(r, batch))

\* a batch failed and the writer flushed another batch after it
C6_Witness ==
    \E i, j \in DOMAIN insertLog : i < j /\ ~insertLog[i].ok /\ insertLog[j].recs # <<>>

\* C7: with no stop signal and a healthy database, every record in the buffer
\* is eventually a row of the table, and whenever buffer and batch are empty
\* the rows written are as many as the records accepted.
C7_AcceptedEventuallyWritten ==
    /\ \A r \in Records : InSeq(r, flowBuffer) ~> InSeq(r, dbTable)
    /\ [](flowBuffer = <<>> /\ batch = <<>> => RecordsWrittenOk = flowsProcessed)

\* a partly filled batch was written by a tick and a full one by its size
C7_Witness ==
    /\ \E i \in DOMAIN insertLog :
           /\ insertLog[i].why = "tick"
           /\ insertLog[i].ok
           /\ Len(insertLog[i].recs) < BufferSize
    /\ \E i \in DOMAIN insertLog : insertLog[i].why = "size" /\ insertLog[i].ok
    /\ flowBuffer = <<>> /\ batch = <<>>

\* C8: a failed bulk insert adds exactly one to dbInsertsFailed, changes
\* neither dbInsertsSuccess nor the table, empties the batch without putting
\* its records back, and leaves the writer in its select loop (it returns only
\* when the flush was the one of the stop signal); no record of a failed batch
\* is in any other batch.
C8_FailedStep ==
    (InsertReturned /\ ~LastInsert.ok) =>
        /\ dbInsertsFailed' = dbInsertsFailed + 1
        /\ dbInsertsSuccess' = dbInsertsSuccess
        /\ dbTable' = dbTable
        /\ batch' = <<>>
        /\ \A i \in DOMAIN LastInsert.recs : ~InSeq(LastInsert.recs[i], flowBuffer')
        /\ writerPc' = IF LastInsert.why = "shutdown" THEN "done" ELSE "select"

C8_FailedInsert ==
    /\ [][C8_FailedStep]_vars
    /\ [](\A i, j \in DOMAIN insertLog :
             (i # j /\ ~insertLog[i].ok) =>
                 \A k \in DOMAIN insertLog[i].recs :
                     ~InSeq(insertLog[i].recs[k], insertLog[j].recs))

\* a batch failed and a later batch was written
C8_Witness ==
    /\ dbInsertsFailed >= 1
    /\ \E i, j \in DOMAIN insertLog : i < j /\ ~insertLog[i].ok /\ insertLog[j].ok

\* C9: a successful bulk insert of a batch of n records adds exactly one to
\* dbInsertsSuccess and the n records to the table, leaves dbInsertsFailed
\* unchanged and empties the batch.
C9_SuccessStep ==
    (InsertReturned /\ LastInsert.ok) =>
        /\ dbInsertsSuccess' = dbInsertsSuccess + 1
        /\ dbInsertsFailed' = dbInsertsFailed
        /\ LastInsert.recs = batch
        /\ Len(batch) >= 1
        /\ dbTable' = dbTable \o batch
        /\ RecordsWrittenOk' = RecordsWrittenOk + Len(batch)
        /\ batch' = <<>>

C10_AllWorkersReceive ==
    \A p \in Protos :
        (~ctxDone /\ \A w \in Workers : Proto(w) = p => wpc[w] \notin {"idle", "start"})
            => Cardinality({w \in Workers : Proto(w) = p /\ wpc[w] \in {"read", "enqueue"}})
                   = WorkerCount(p)

\* C11 (as claimed): the agent is never in the running state, after the successful start it
\* reported, while a collector whose workers have all tried to bind has no
\* socket bound to its listen address
C11_RunningImpliesBound ==
    agent = "running" =>
        \A p \in Protos :
            (\A w \in Workers : Proto(w) = p => wpc[w] \notin {"idle", "start"})
                => socket[p] \in Workers

\* C12: once Stop has cancelled the context, every collector worker, the
\* writer and the stats reporter return and Stop reaches the stopped state
C12_StopCompletes ==
    ctxDone ~> (/\ agent = "stopped"
                /\ writerPc = "done"
                /\ statsPc = "done"
                /\ \A w \in Workers : wpc[w] = "done")

\* the stop signal arrives during an insert, with a record still buffered and
\* a collector in the middle of a datagram
C12_Witness ==
    /\ agent = "draining"
    /\ writerPc = "copy"
    /\ statsPc = "run"
    /\ Len(flowBuffer) > 0
    /\ \E w \in Workers : wpc[w] = "enqueue"

\* C13 (as claimed): once the stop signal has been given, no collector adds a record to
\* the buffer
C13_NoEnqueueAfterStop ==
    [][ctxDone => /\ flowsProcessed' = flowsProcessed
                  /\ Len(flowBuffer') <= Len(flowBuffer)]_vars

\* C14: the step of a datagram whose decode fails adds one to the datagram
\* counter and one to the decode error counter, enqueues no record, and the
\* worker goes on to its next read (it returns only if the context is
\* cancelled by then)
C14_DecodeFailureStep ==
    /\ packetsReceived' = packetsReceived + 1
    /\ parseErrors' = parseErrors + 1
    /\ UNCHANGED <<flowBuffer, flowsProcessed, emitted, dropped, pending>>
    /\ \E w \in Workers :
           /\ wpc[w] = "read"
           /\ wpc' = [wpc EXCEPT ![w] = IF ctxDone THEN "done" ELSE "read"]

C14_DecodeFailure == [][parseErrors' # parseErrors => C14_DecodeFailureStep]_vars

\* a worker has had two datagrams rejected and is reading again
C14_Witness ==
    /\ parseErrors >= 2
    /\ ~ctxDone
    /\ \E w \in Workers : wpc[w] = "read" /\ socket[Proto(w)] = w
    /\ \A w \in Workers : Proto(w) = "sflow" => wpc[w] = "start"

\* the NetFlow Parse call has returned
NetflowReturned == wire # <<>> /\ parsed # NotParsed

\* C17: Parse of a payload shorter than 24 bytes, or whose version is not 5
\* (9 and 10 included), returns an error and no record, adds one to
\* ParseErrors and leaves PacketsParsed and RecordsParsed as they were
C17_Rejected ==
    /\ parsed'.err # "nil"
    /\ parsed'.flows = <<>>
    /\ parserStats' = [parserStats EXCEPT !.ParseErrors = @ + 1]

V5WithHeader == wire.Version = NetFlowV5 /\ Len(data) >= headerSize

\* C18: Parse of a version 5 payload shorter than 24 + count * 48 bytes, for
\* the count its header declares, fails with the size mismatch error and
\* returns no record
C18_SizeMismatch ==
    [][(V5WithHeader /\ Len(data) < headerSize + wire.Count * recordSize)
          => /\ parsed'.err = "v5 packet size mismatch"
             /\ parsed'.flows = <<>>
             /\ parserStats' = [parserStats EXCEPT !.ParseErrors = @ + 1]]_vars

\* a datagram one byte short of its single record has been rejected
C18_Witness ==
    /\ NetflowReturned
    /\ wire.Version = NetFlowV5
    /\ wire.Count = 1
    /\ Len(data) = headerSize + recordSize - 1
    /\ parsed.err = "v5 packet size mismatch"

\* the fields Parse copies from the i-th record of the datagram
Copied(r) ==
    [SourceIP |-> r.SrcAddr, DestinationIP |-> r.DstAddr, NextHopIP |-> r.NextHop,
     SourcePort |-> r.SrcPort, DestPort |-> r.DstPort, Protocol |-> r.Prot,
     TCPFlags |-> r.TCPFlags, ToS |-> r.Tos,
     InputInterface |-> FromInt(r.Input, 4), OutputInterface |-> FromInt(r.Output, 4),
     SourceAS |-> FromInt(r.SrcAS, 4), DestAS |-> FromInt(r.DstAS, 4)]

CopiedOf(f) ==
    [SourceIP |-> f.SourceIP, DestinationIP |-> f.DestinationIP,
     NextHopIP |-> f.NextHopIP, SourcePort |-> f.SourcePort, DestPort |-> f.DestPort,
     Protocol |-> f.Protocol, TCPFlags |-> f.TCPFlags, ToS |-> f.ToS,
     InputInterface |-> f.InputInterface, OutputInterface |-> f.OutputInterface,
     SourceAS |-> f.SourceAS, DestAS |-> f.DestAS]

\* C19: Parse of a version 5 payload of at least 24 + count * 48 bytes returns
\* no error and exactly count records, the i-th with the fields of the i-th
\* record of the payload whatever bytes follow the last record (none for
\* count 0); PacketsParsed grows by one, RecordsParsed by count, ParseErrors
\* stays
C19_AllRecords ==
    [][(V5WithHeader /\ Len(data) >= headerSize + wire.Count * recordSize)
          => /\ parsed'.err = "nil"
             /\ Len(parsed'.flows) = wire.Count
             /\ \A i \in 1..wire.Count :
                    CopiedOf(parsed'.flows[i]) = Copied(wire.Records[i])
             /\ parserStats' = [parserStats EXCEPT
                                   !.PacketsParsed = @ + 1,
                                   !.RecordsParsed = @ + wire.Count]]_vars

\* MaxCount different records followed by trailing bytes have been decoded
C19_Witness ==
    /\ NetflowReturned
    /\ Len(parsed.flows) = MaxCount
    /\ Len(data) = headerSize + MaxCount * recordSize + 3
    /\ wire.Records[1] # wire.Records[MaxCount]
    /\ parserStats.RecordsParsed = 2 + MaxCount

\* the sampling rate of a header: the low 14 bits of its sampling interval,
\* and 1 when they are zero
C20_Rate(w) ==
    IF w.SamplingInterval % 16384 = 0 THEN 1 ELSE w.SamplingInterval % 16384

\* C20: every record of a decoded version 5 datagram carries the sampling
\* rate max(1, interval & 0x3FFF), and its Bytes and Packets are the
\* record's dOctets and dPkts times that rate, as the exact product
C20_Scaled ==
    NetflowReturned =>
        \A i \in 1..Len(parsed.flows) :
            /\ parsed.flows[i].SamplingRate = FromInt(C20_Rate(wire), 4)
            /\ Resize(parsed.flows[i].Bytes, 12)
                   = Mul(wire.Records[i].DOctets, FromInt(C20_Rate(wire), 2), 12)
            /\ Resize(parsed.flows[i].Packets, 12)
                   = Mul(wire.Records[i].DPkts, FromInt(C20_Rate(wire), 2), 12)

\* 2^32 - 1 octets at the largest rate, 16383: a product above 2^32
C20_Witness ==
    /\ NetflowReturned
    /\ Len(parsed.flows) >= 1
    /\ wire.SamplingInterval = 65535
    /\ wire.Records[1] = LargeRecord
    /\ parsed.flows[1].Bytes = <<0, 0, 63, 254, 255, 255, 192, 1>>

\* the sFlow Parse call has ended
SflowReturned == parsed # NotParsed /\ "AddressType" \in DOMAIN wire

\* C15 (as claimed): Parse of an sFlow payload never panics, and a version 5 payload that
\* ends before the end of its datagram header (28 bytes with an IPv4 agent
\* address, 40 bytes with an IPv6 one) is rejected as too short
C15_HeaderBounds ==
    SflowReturned =>
        /\ parsed.err # "panic"
        /\ (/\ wire.Version = SFlowVersion5
            /\ wire.AddressType \in {1, 2}
            /\ Len(data) < SflowHeaderLen(wire.AddressType))
               => parsed.err \in {"sFlow packet too short",
                                  "too short for IPv4 agent address",
                                  "too short for IPv6 agent address"}

\* C16 (as claimed): every record a decoder returns has a sampling rate of at least 1
C16_SamplingRateAtLeastOne ==
    parsed # NotParsed =>
        \A i \in 1..Len(parsed.flows) : parsed.flows[i].SamplingRate # Zeros(4)

\* the sFlow payload has version 5, an IPv4 agent address and a whole
\* datagram header
SflowWithHeader ==
    /\ "AddressType" \in DOMAIN wire
    /\ wire.Version = SFlowVersion5
    /\ wire.AddressType = 1
    /\ Len(data) >= SflowHeaderLen(1)

\* the offset in the datagram of w at which its i-th sample ends
RECURSIVE SampleEnd(_, _)
SampleEnd(w, i) ==
    IF i = 0 THEN SflowHeaderLen(w.AddressType)
    ELSE SampleEnd(w, i - 1) + Len(SampleBytes(w.Samples[i]))

\* the i-th sample of w is whole: the exporter wrote all of its body, and the
\* payload holds all of it
WellFormed(w, i) == w.Samples[i].Cut = 0 /\ SampleEnd(w, i) <= Len(data)

\* the i-th sample of w is malformed: its header is in the payload, and its
\* body is cut short or overruns the payload
Malformed(w, i) ==
    /\ SampleEnd(w, i - 1) + 8 <= Len(data)
    /\ w.Samples[i].Cut > 0 \/ SampleEnd(w, i) > Len(data)

\* the IPv4 frames sampled in a sample, each with the sample
Ipv4Frames(sm) ==
    IF FormatOf(sm.Format) \in {SampleFlowSample, SampleFlowSampleExpanded}
    THEN LET fs == SelectSeq(sm.Frames, LAMBDA f : f.EtherType = 2048)
         IN  [j \in 1..Len(fs) |-> [sample |-> sm, frame |-> fs[j]]]
    ELSE <<>>

\* what a frame and a record say of a packet: lengths, addresses, ports,
\* protocol
Sampled(f) ==
    [FrameLength |-> f.FrameLength, Src |-> f.Src, Dst |-> f.Dst,
     SrcPort |-> f.SrcPort, DstPort |-> f.DstPort, Prot |-> f.Prot]

Decoded(r) ==
    [FrameLength |-> r.PacketSize, Src |-> r.SourceIP, Dst |-> r.DestinationIP,
     SrcPort |-> r.SourcePort, DstPort |-> r.DestPort, Prot |-> r.Protocol]

\* the IPv4 frames of the whole samples of w, in wire order
FramesOfWholeSamples(w) ==
    Flatten([i \in 1..Len(w.Samples) |->
                IF WellFormed(w, i) THEN Ipv4Frames(w.Samples[i]) ELSE <<>>])

\* C21 (as claimed): Parse of an sFlow datagram with a whole header returns
\* no error and the records of exactly the whole samples, in wire order: a
\* flow sample shorter than its fixed fields, a sample with a record that
\* overruns it and a sample that overruns the payload yield no record
C21_TruncatedSampleSkipped ==
    (SflowReturned /\ SflowWithHeader) =>
        /\ parsed.err = "nil"
        /\ [i \in 1..Len(parsed.flows) |-> Decoded(parsed.flows[i])]
               = [i \in 1..Len(FramesOfWholeSamples(wire)) |->
                     Sampled(FramesOfWholeSamples(wire)[i].frame)]

\* C22 (as claimed): Parse of an sFlow datagram with a whole header returns
\* no error, adds one to PacketsParsed, and adds one to ParseErrors for each
\* malformed sample
C22_MalformedCounted ==
    [][(SflowWithHeader /\ parsed = NotParsed) =>
          /\ parsed'.err = "nil"
          /\ parserStats'.PacketsParsed = parserStats.PacketsParsed + 1
          /\ parserStats'.ParseErrors = parserStats.ParseErrors
                 + Cardinality({i \in 1..Len(wire.Samples) : Malformed(wire, i)})]_vars

\* every sample of the sFlow datagram is whole
SflowWhole ==
    SflowWithHeader /\ \A i \in 1..Len(wire.Samples) : WellFormed(wire, i)

\* the IPv4 frames of all samples of w, in wire order
FramesOf(w) == Flatten([i \in 1..Len(w.Samples) |-> Ipv4Frames(w.Samples[i])])

\* C23: Parse of a whole sFlow datagram returns no error, leaves ParseErrors
\* as it was, and returns one record for each raw packet header record of an
\* IPv4 frame, in wire order: a record whose ethertype, after a VLAN tag if
\* any, is not 0x0800 yields no record, and the records and samples after
\* it are decoded
C23_NonIPv4Skipped ==
    [][(SflowWhole /\ parsed = NotParsed) =>
          /\ parsed'.err = "nil"
          /\ parserStats'.ParseErrors = parserStats.ParseErrors
          /\ [i \in 1..Len(parsed'.flows) |-> Decoded(parsed'.flows[i])]
                 = [i \in 1..Len(FramesOf(wire)) |-> Sampled(FramesOf(wire)[i].frame)]]_vars

\* an IPv6 record and a tagged ARP record came before an IPv4 record, in a
\* sample that came before another: both IPv4 records were decoded
C23_Witness ==
    /\ SflowReturned
    /\ SflowWhole
    /\ Len(wire.Samples) = MaxSamples
    /\ wire.Samples[1] = MixedFlow
    /\ wire.Samples[MaxSamples] = SampledFlow
    /\ Len(parsed.flows) = 2
    /\ parsed.flows[1].SourceIP = WebFrame.Src
    /\ parsed.flows[2].SourceIP = TcpFrame.Src

\* C24: every record of a whole sFlow datagram has the sampling rate and the
\* interfaces of its sample, the addresses, ports and protocol of its frame,
\* Packets equal to the sampling rate, and Bytes equal to the frame length
\* times the sampling rate as the exact product
C24_Scaled ==
    (SflowReturned /\ SflowWhole) =>
        /\ Len(parsed.flows) = Len(FramesOf(wire))
        /\ \A i \in 1..Len(parsed.flows) :
               LET r == parsed.flows[i]
                   sm == FramesOf(wire)[i].sample
                   f == FramesOf(wire)[i].frame
               IN  /\ Resize(r.Bytes, 12) = Mul(f.FrameLength, sm.SamplingRate, 12)
                   /\ r.Packets = Resize(sm.SamplingRate, 8)
                   /\ r.SamplingRate = sm.SamplingRate
                   /\ r.InputInterface = sm.Input
                   /\ r.OutputInterface = sm.Output
                   /\ Decoded(r) = Sampled(f)

\* a frame of 1000 bytes sampled at 1 in 512 counts 512000 bytes and 512
\* packets, and a frame of 2^32 - 1 bytes at 1 in 2^32 - 1 counts their
\* product, which is above 2^63
C24_Witness ==
    /\ SflowReturned
    /\ SflowWhole
    /\ Len(wire.Samples) = MaxSamples
    /\ wire.Samples[1] = MixedFlow
    /\ wire.Samples[MaxSamples] = LargestFlow
    /\ Len(parsed.flows) = 2
    /\ parsed.flows[1].Bytes = <<0, 0, 0, 0, 0, 7, 208, 0>>
    /\ parsed.flows[1].Packets = <<0, 0, 0, 0, 0, 0, 2, 0>>
    /\ parsed.flows[1].DestPort = 12345
    /\ parsed.flows[2].Bytes = <<255, 255, 255, 254, 0, 0, 0, 1>>

IsPath(g, nodes, source, destination) ==
    /\ Len(nodes) >= 1
    /\ nodes[1] = source
    /\ nodes[Len(nodes)] = destination
    /\ \A i \in 1..(Len(nodes) - 1) : <<nodes[i], nodes[i + 1]>> \in DOMAIN g.Edges

\* the paths of g from source to destination that visit no node twice
SimplePaths(g, source, destination) ==
    UNION {{nodes \in [1..n -> g.Nodes] :
               /\ \A i, j \in 1..n : i # j => nodes[i] # nodes[j]
               /\ IsPath(g, nodes, source, destination)}
              : n \in 1..Cardinality(g.Nodes)}

\* the least total cost of a path from source to destination
MinCost(g, source, destination) ==
    CHOOSE c \in {TotalCost(g, nodes) : nodes \in SimplePaths(g, source, destination)} :
        \A nodes \in SimplePaths(g, source, destination) : c <= TotalCost(g, nodes)

\* the Dijkstra call has returned
DijkstraReturned == routing.pc = "done" /\ "path" \in DOMAIN routing

\* C26: Dijkstra returns an error exactly when source or destination is not
\* a node or no path leads from source to destination; otherwise it returns
\* a path from source to destination along edges of the graph, whose total
\* cost is the least of all such paths
C26_ShortestPath ==
    DijkstraReturned =>
        LET found == /\ routing.source \in graph.Nodes
                     /\ routing.destination \in graph.Nodes
                     /\ SimplePaths(graph, routing.source, routing.destination) # {}
        IN  /\ routing.path.err # "nil" <=> ~found
            /\ found =>
                   /\ IsPath(graph, routing.path.Nodes, routing.source,
                             routing.destination)
                   /\ routing.path.TotalCost = TotalCost(graph, routing.path.Nodes)
                   /\ routing.path.TotalCost
                          = MinCost(graph, routing.source, routing.destination)

\* of two paths of two links, and a third of three, the cheaper was returned
C26_Witness ==
    /\ DijkstraReturned
    /\ routing.path.Nodes = <<"R1", "R2", "R4">>
    /\ routing.path.TotalCost = 2
    /\ Cardinality(SimplePaths(graph, "R1", "R4")) >= 3
    /\ <<"R1", "R4">> \notin DOMAIN graph.Edges
    /\ graph.Edges[<<"R1", "R3">>] = MaxCost

\* the FindKShortestPaths call has returned
KspReturned == routing.pc = "done" /\ "k" \in DOMAIN routing

\* C27 (as claimed): FindKShortestPaths returns an error only when no path
\* leads from source to destination; otherwise it returns between 1 and k
\* paths from source to destination along edges of the graph, no two the
\* same, in order of non-decreasing total cost, the first of least cost
C27_KShortestPaths ==
    KspReturned =>
        LET paths == routing.paths
            found == /\ routing.source \in graph.Nodes
                     /\ routing.destination \in graph.Nodes
                     /\ SimplePaths(graph, routing.source, routing.destination) # {}
        IN  /\ routing.err # "nil" => ~found
            /\ routing.err = "nil" =>
                   /\ Len(paths) \in 1..routing.k
                   /\ \A p, q \in 1..Len(paths) :
                          p # q => paths[p].Nodes # paths[q].Nodes
                   /\ \A p \in 1..Len(paths) :
                          /\ IsPath(graph, paths[p].Nodes, routing.source,
                                    routing.destination)
                          /\ paths[p].TotalCost = TotalCost(graph, paths[p].Nodes)
                   /\ \A p \in 1..(Len(paths) - 1) :
                          paths[p].TotalCost <= paths[p + 1].TotalCost
                   /\ paths[1].TotalCost
                          = MinCost(graph, routing.source, routing.destination)

\* the records that have been sent to a.flowBuffer, oldest first: those of
\* the inserts made, then the batch, then the channel
Accepted ==
    Flatten([i \in 1..Len(insertLog) |-> insertLog[i].recs]) \o batch \o flowBuffer

\* the ways to split the records emitted so far into datagrams: each datagram
\* holds at most MaxFlowsPerDatagram records, which ReadDatagram numbered one
\* after the other in wire order
Splits ==
    {dg \in [1..emitted -> 1..MaxDatagrams] :
        /\ \A r \in 1..(emitted - 1) : dg[r] <= dg[r + 1]
        /\ \A d \in 1..MaxDatagrams :
               Cardinality({r \in 1..emitted : dg[r] = d}) <= MaxFlowsPerDatagram}

\* C28 (as claimed): the records that went through the buffer are, for the
\* datagrams they came in, in wire order and contiguous: between two records
\* of one datagram there is no record of another. The model keeps no record
\* of which datagram a record came in, so the property is asked of some split
\* of the records into datagrams
C28_DatagramContiguous ==
    \E dg \in Splits :
        \A i, k \in 1..Len(Accepted) :
            (i < k /\ dg[Accepted[i]] = dg[Accepted[k]]) =>
                /\ Accepted[i] < Accepted[k]
                /\ \A j \in i..k : dg[Accepted[j]] = dg[Accepted[i]]

\* the records that the step's insert, if it made one, handed to the database
Inserted == IF InsertReturned THEN LastInsert.recs ELSE <<>>

\* C29: the one writer takes the records from the channel oldest first and
\* hands them to the database in that order. The insert log only grows at its
\* end, and the records not yet inserted (the batch, then the channel) are
\* after a step what they were before it, less the records of the insert the
\* step made, which are their first ones in the same order, plus at most one
\* record that a collector sent, which is the last one in the channel; the
\* table grows at its end by the records of a successful insert, in the
\* order of the batch
C29_FifoOrder ==
    [][/\ insertLog' = insertLog \/ InsertReturned
       /\ SubSeq(insertLog', 1, Len(insertLog)) = insertLog
       /\ dbTable' = dbTable \o (IF InsertReturned /\ LastInsert.ok
                                 THEN LastInsert.recs ELSE <<>>)
       /\ \/ Inserted \o batch' \o flowBuffer' = batch \o flowBuffer
          \/ /\ Len(flowBuffer') = Len(flowBuffer) + 1
             /\ Inserted \o batch' \o Front(flowBuffer') = batch \o flowBuffer]_vars

\* two inserts have been made; the first was of a full batch whose records
\* were sent in another order than they were read from the sockets
C29_Witness ==
    /\ Len(insertLog) >= 2
    /\ Len(insertLog[1].recs) = BufferSize
    /\ insertLog[1].recs[1] > insertLog[1].recs[2]
    /\ insertLog[2].recs # <<>>

\* C30: the channel holds at most BufferSize records and the batch at most
\* BufferSize; the writer is at its select, where it can receive a record,
\* only with a batch below BufferSize: a batch that has reached BufferSize
\* is emptied by its flush, whatever the insert returns
C30_BoundedMemory ==
    /\ Len(flowBuffer) <= BufferSize
    /\ Len(batch) <= BufferSize
    /\ writerPc = "select" => Len(batch) < BufferSize

\* a flush of a full batch has failed, and the writer has received another
\* record since
C30_Witness ==
    /\ insertLog # <<>>
    /\ insertLog[Len(insertLog)].why = "size"
    /\ ~insertLog[Len(insertLog)].ok
    /\ Len(insertLog[Len(insertLog)].recs) = BufferSize
    /\ writerPc = "select"
    /\ Len(batch) = 1

\* C31: the database handle is closed (agent is "stopped") only when the
\* writer and every collector have returned, and from then on no insert is
\* in progress, none starts and none returns
C31_CloseAfterWorkers ==
    [][agent' = "stopped" =>
          /\ writerPc' = "done"
          /\ \A w \in Workers : wpc'[w] = "done"
          /\ agent = "stopped" => insertLog' = insertLog]_vars

\* the handle has been closed after the writer's flush at shutdown
C31_Witness ==
    /\ agent = "stopped"
    /\ insertLog # <<>>
    /\ insertLog[Len(insertLog)].why = "shutdown"
    /\ \E w \in Workers : socket[Proto(w)] = NoOwner /\ packetsReceived > 0

\* every concurrent Parse call has returned
AllReturned == calls # <<>> /\ \A c \in Callers : calls[c].pc = "returned"

RECURSIVE Sum(_, _)
Sum(f, S) == IF S = {} THEN 0 ELSE LET x == CHOOSE x \in S : TRUE
                                    IN  f[x] + Sum(f, S \ {x})

\* C32 (as claimed): once the concurrent Parse calls on one parser have all
\* returned, packets parsed plus parse errors is the number of calls, and
\* records parsed is the number of records the calls returned
C32_NoLostUpdate ==
    AllReturned =>
        /\ parserStats.PacketsParsed + parserStats.ParseErrors = MaxCallers
        /\ parserStats.RecordsParsed =
               Sum([c \in Callers |-> Len(Outcome(calls[c].wire).flows)], Callers)

\* C33: a collector that has bound its socket returns only when the context
\* has been cancelled, and a read that fails, by timeout or otherwise,
\* leaves every counter, the channel and the records pending as they were
C33_ReadFailureContinues ==
    [][/\ \A w \in Workers :
             (wpc[w] \in {"read", "enqueue"} /\ wpc'[w] = "done") => ctxDone
       /\ (\E w \in Workers : ReadTimeout(w) \/ ReadError(w)) =>
             /\ counters' = counters
             /\ flowBuffer' = flowBuffer
             /\ pending' = pending
             /\ emitted' = emitted
             /\ dropped' = dropped]_vars

\* a collector holds its socket and is at its read, after a datagram and
\* with no stop signal: a read that fails now brings it back here
C33_Witness ==
    /\ ~ctxDone
    /\ packetsReceived > 0
    /\ \E w \in Workers : wpc[w] = "read" /\ socket[Proto(w)] = w

\* C34: a flush of an empty batch does nothing. No insert is ever made or
\* in progress for an empty batch, and the success and failure counters
\* count the inserts made, so a flush that makes none changes neither
C34_EmptyFlushNoOp ==
    /\ \A i \in DOMAIN insertLog : insertLog[i].recs # <<>>
    /\ writerPc = "copy" => batch # <<>>
    /\ dbInsertsSuccess + dbInsertsFailed = Len(insertLog)

\* the writer has returned, after the flush of its ctx.Done() case, and no
\* insert was ever made: that flush, and those of the ticks before it, were
\* of an empty batch
C34_Witness ==
    /\ writerPc = "done"
    /\ insertLog = <<>>
    /\ ~tick
    /\ packetsReceived > 0
    /\ dbInsertsSuccess = 0 /\ dbInsertsFailed = 0

\* what an address field of a row reads now: its text, or, were it a slice
\* of the receive buffer, the text of the bytes the buffer holds there
Reads(buf, field) ==
    IF "lo" \in DOMAIN field THEN IPString(Deref(buf, field)) ELSE field

\* C35: the rows a collector has sent keep their content while the collector
\* reads later datagrams into the same buffer: at every moment the addresses
\* of a row read as the addresses of the record it was built from
C35_RowsImmutable ==
    \A i \in DOMAIN rows :
        /\ Reads(data, rows[i].row.SourceIP) = IPString(rows[i].from.SrcAddr)
        /\ Reads(data, rows[i].row.DestinationIP) = IPString(rows[i].from.DstAddr)
        /\ Reads(data, rows[i].row.NextHopIP) = IPString(rows[i].from.NextHop)
        /\ rows[i].row.SourcePort = rows[i].from.SrcPort
        /\ rows[i].row.DestPort = rows[i].from.DstPort
        /\ rows[i].row.Protocol = rows[i].from.Prot

\* a row was sent and the collector has since read a datagram whose first
\* record has other addresses into the buffer
C35_Witness ==
    /\ rows # <<>>
    /\ parsed = NotParsed
    /\ wire.Version = NetFlowV5
    /\ wire.Records[1].SrcAddr # rows[1].from.SrcAddr
    /\ Slice(data, headerSize, headerSize + 4) = wire.Records[1].SrcAddr

\* the text of an IPv4 or IPv6 address
WellFormedIP(s) == s.text \in {"dotted", "ipv6"}

\* C36 (as claimed): every row carries the text of an IP address in its four
\* address columns, and a row built from an sFlow flow has the zero address
\* as next hop and 0 in the columns sFlow does not fill
C36_AddressColumns ==
    \A i \in DOMAIN rows :
        /\ WellFormedIP(rows[i].row.ExporterIP)
        /\ WellFormedIP(rows[i].row.SourceIP)
        /\ WellFormedIP(rows[i].row.DestinationIP)
        /\ WellFormedIP(rows[i].row.NextHopIP)
        /\ rows[i].row.NextHopIP = IPString(Zeros(4))
        /\ rows[i].row.TCPFlags = 0
        /\ rows[i].row.ToS = 0
        /\ rows[i].row.SourceAS = Signed(Zeros(4))
        /\ rows[i].row.DestAS = Signed(Zeros(4))
        /\ rows[i].row.FlowDuration = Signed(Zeros(4))

\* a signed column holds the unsigned value v
Holds(column, v) == ~column.neg /\ column.mag = v

\* C39 (as claimed): the numeric columns of a row are non-negative and equal
\* to the values of the flow it was built from
C39_NumericColumns ==
    \A i \in DOMAIN rows :
        /\ Holds(rows[i].row.Bytes, rows[i].flow.Bytes)
        /\ Holds(rows[i].row.Packets, rows[i].flow.Packets)
        /\ Holds(rows[i].row.SamplingRate, rows[i].flow.SamplingRate)
        /\ Holds(rows[i].row.InputInterface, rows[i].flow.InputInterface)
        /\ Holds(rows[i].row.OutputInterface, rows[i].flow.OutputInterface)
        /\ rows[i].row.SourcePort = rows[i].flow.SourcePort
        /\ rows[i].row.DestPort = rows[i].flow.DestPort
        /\ rows[i].row.Protocol = rows[i].flow.Protocol

\* x < y for unsigned integers of the same width: at the first byte where
\* they differ, x has the smaller one
Before(x, y) ==
    \E i \in DOMAIN x : x[i] < y[i] /\ \A j \in 1..(i - 1) : x[j] = y[j]

\* C37: the FlowDuration of every record of a decoded version 5 datagram is
\* 0 when the record's last uptime is before its first, and otherwise the
\* 32-bit number that added to first gives last with no carry out
C37_FlowDuration ==
    NetflowReturned =>
        \A i \in 1..Len(parsed.flows) :
            IF Before(wire.Records[i].Last, wire.Records[i].First)
            THEN parsed.flows[i].FlowDuration = Zeros(4)
            ELSE AddCarry(wire.Records[i].First, parsed.flows[i].FlowDuration, 0)
                     = <<0>> \o wire.Records[i].Last

\* a record whose last uptime is before its first has been decoded with
\* duration 0, next to one with a duration of 255 ms
C37_Witness ==
    /\ NetflowReturned
    /\ Len(parsed.flows) = 2
    /\ wire.Records[1] = LargeRecord
    /\ parsed.flows[1].FlowDuration = <<0, 0, 0, 0>>
    /\ wire.Records[2] = SmallRecord
    /\ parsed.flows[2].FlowDuration = <<0, 0, 0, 255>>

\* the sampled header of frame f holds an IPv4 header after its ethertype
HoldsIpv4(f) ==
    /\ f.EtherType = 2048
    /\ Len(FrameBytes(f)) >= (IF f.Tag = <<>> THEN 14 ELSE 18) + 20

\* what the records of a sample say of the packets, VLAN included: one for
\* each frame that holds an IPv4 header, a tagged one with the low 12 bits
\* of the two bytes after the 0x8100 as VLAN id
VlanRecords(sm) ==
    LET fs == SelectSeq(sm.Frames, HoldsIpv4)
    IN  [j \in 1..Len(fs) |->
            [Src |-> fs[j].Src, Dst |-> fs[j].Dst, SrcPort |-> fs[j].SrcPort,
             DstPort |-> fs[j].DstPort, Prot |-> fs[j].Prot, EtherType |-> 2048,
             VlanID |-> IF fs[j].Tag = <<>> THEN 0
                        ELSE Value(SubSeq(fs[j].Tag, 3, 4)) % 4096]]

\* C38: for a whole datagram, the records returned are those of the frames
\* that hold an IPv4 header, in wire order. A frame with 0x8100 at offset 12
\* gives the low 12 bits of the next two bytes as VLAN id, ethertype 0x0800
\* from the two bytes after them, and the addresses, protocol and ports of
\* the IPv4 header at offset 18, the same as the frame without the tag; a
\* tagged header of fewer than 18 bytes gives no record
C38_VlanTag ==
    (SflowReturned /\ parsed.err = "nil" /\ Len(data) = Len(SflowBytes(wire))) =>
        [i \in 1..Len(parsed.flows) |->
            [Src |-> parsed.flows[i].SourceIP, Dst |-> parsed.flows[i].DestinationIP,
             SrcPort |-> parsed.flows[i].SourcePort,
             DstPort |-> parsed.flows[i].DestPort, Prot |-> parsed.flows[i].Protocol,
             EtherType |-> parsed.flows[i].EtherType,
             VlanID |-> parsed.flows[i].VlanID]]
          = Flatten([i \in 1..Len(wire.Samples) |-> VlanRecords(wire.Samples[i])])

\* a sample with the tagged frame, two short samplings of it and the
\* untagged frame gave two records: VLAN 100 and no VLAN, otherwise alike
C38_Witness ==
    /\ SflowReturned
    /\ parsed.err = "nil"
    /\ Len(wire.Samples) = 1
    /\ wire.Samples[1] = VlanFlow
    /\ Len(parsed.flows) = 2
    /\ parsed.flows[1].VlanID = 100
    /\ parsed.flows[2].VlanID = 0
    /\ parsed.flows[1].SourceIP = parsed.flows[2].SourceIP
    /\ parsed.flows[1].DestPort = 54321

\* C40 (as claimed): Parse of an sFlow payload comes to its end whatever the
\* payload declares, and the sample loop and each record loop make no more
\* iterations than one for every 8 bytes they are given, and one that stops
C40_DecodeBounded ==
    SflowReturned =>
        /\ parsed.err # "out of memory"
        /\ (parsed.err = "nil" /\ SflowWithHeader) =>
              /\ SampleIterations(data, 28, 0, Uint32(data, 24))
                     <= (Len(data) - 28) \div 8 + 1
              /\ \A sd \in FlowSampleData(data, 28, 0, Uint32(data, 24)) :
                     RecordIterations(sd, 32, 0, Uint32(sd, 28))
                         <= (Len(sd) - 32) \div 8 + 1

====
